---------------------------- MODULE Spec2Model ----------------------------
(***************************************************************************)
(* flask_common: the versioned AES-CTR + HMAC envelope of                  *)
(* flask_common/crypto.py, the EncryptedStringField adapter of             *)
(* flask_common/mongo/fields/crypto.py and the DocumentBase timestamps of  *)
(* flask_common/mongo/documents.py.                                        *)
(*                                                                         *)
(* Byte strings are sequences of integers 0..255 and keep their real       *)
(* widths (64-byte keys, 16- and 32-byte IV fields, 32-byte tags).  The    *)
(* source is Python 2 (crypto.py:62): indexing a byte string gives a       *)
(* one-byte string, so data[0] == V0_MARKER compares the leading byte      *)
(* with 0.  The two library primitives the source calls, HMAC-SHA256 and   *)
(* the AES block function, are replaced by small keyed polynomial hashes   *)
(* of the same signature and output width; counter mode itself (counter    *)
(* blocks, keystream, XOR) is modelled as it works.                        *)
(***************************************************************************)
EXTENDS Integers, Sequences, FiniteSets, TLC

\* ------------------------------------------------------------ constants
AES_KEY_SIZE == 32
HMAC_KEY_SIZE == 32
V0_IV_SIZE == 32
IV_SIZE == 16
HMAC_DIGEST_SIZE == 32
KEY_LENGTH == AES_KEY_SIZE + HMAC_KEY_SIZE
V0_MARKER == <<0>>
V1_MARKER == <<1>>

\* Bounds of the model.
MaxLen == 2
MaxRing == 2
MaxThreads == 2
MaxClock == 3
MaxNesting == 3
MaxRetry == 2

\* ------------------------------------------------- Python byte strings
Min(a, b) == IF a < b THEN a ELSE b
Max(a, b) == IF a > b THEN a ELSE b

\* s[:n] for n >= 0
Take(s, n) == SubSeq(s, 1, Min(n, Len(s)))
\* s[n:] for n >= 0
Drop(s, n) == SubSeq(s, Min(n, Len(s)) + 1, Len(s))
\* s[:-n] for n > 0
DropLast(s, n) == SubSeq(s, 1, Max(Len(s) - n, 0))
\* s[-n:] for n > 0
TakeLast(s, n) == SubSeq(s, Max(Len(s) - n, 0) + 1, Len(s))

RECURSIVE Xor(_, _)
Xor(a, b) ==
    IF a = 0 THEN b
    ELSE IF b = 0 THEN a
    ELSE (((a % 2) + (b % 2)) % 2) + 2 * Xor(a \div 2, b \div 2)

\* ------------------------------------------------ library primitives
\* The stand-in compression function of both primitives: a position-weighted
\* sum modulo a prime, so that two strings of equal length that differ in
\* one byte never collide.  The sum is taken by halves to keep the
\* evaluation shallow.
Weight(i) == (i * i * i * 31 + i * 1009 + 7) % 8355961

RECURSIVE WeightedSum(_, _, _)
WeightedSum(s, lo, hi) ==
    IF lo > hi THEN 0
    ELSE IF lo = hi THEN (Weight(lo) * (s[lo] + 1)) % 8355961
    ELSE LET mid == (lo + hi) \div 2
         IN  (WeightedSum(s, lo, mid) + WeightedSum(s, mid + 1, hi)) % 8355961

Compress(s, salt) == (WeightedSum(s, 1, Len(s)) + salt * 4099 + Len(s)) % 8355961

\* hmac.new(k, msg, HMAC_DIGEST).digest(): a keyed digest of
\* HMAC_DIGEST_SIZE bytes.
HmacDigest(k, msg) ==
    LET h == Compress(k \o msg, 1)
    IN  [j \in 1..HMAC_DIGEST_SIZE |->
            CASE (j % 3) = 1 -> (h + (j \div 3) * 37) % 256
              [] (j % 3) = 2 -> ((h \div 256) + (j \div 3) * 41) % 256
              [] OTHER     -> ((h \div 65536) + (j \div 3) * 43) % 256]

\* algorithms.AES(k) applied to one 16-byte block.
AesBlock(k, block) ==
    LET h == Compress(k \o block, 2)
    IN  [j \in 1..IV_SIZE |-> ((h % 65521) * (2 * j + 1) + (h \div 4096) + j) % 256]

\* The counter block nonce + n as a big-endian 128-bit integer (wrapping).
RECURSIVE CounterAdd(_, _, _)
CounterAdd(block, i, carry) ==
    IF i = 0 \/ carry = 0 THEN block
    ELSE CounterAdd([block EXCEPT ![i] = (block[i] + carry) % 256],
                    i - 1, (block[i] + carry) \div 256)

\* Cipher(algorithms.AES(k), modes.CTR(nonce)).encryptor()/.decryptor()
\* run over text: XOR with the keystream.  Encryption and decryption are the
\* same operation.
AesCtr(k, nonce, text) ==
    LET nblocks == (Len(text) + IV_SIZE - 1) \div IV_SIZE
        ks == [b \in 0..(nblocks - 1) |->
                  AesBlock(k, CounterAdd(nonce, IV_SIZE, b))]
    IN  [i \in 1..Len(text) |->
            Xor(text[i], ks[(i - 1) \div IV_SIZE][((i - 1) % IV_SIZE) + 1])]

\* ------------------------------------------------------ flask_common.crypto
\* Mutant of aes_encrypt_iv: the signature leaves the IV out.
aes_encrypt_iv_unsigned_iv(key, data, iv) ==
    LET cipher == AesCtr(Take(key, AES_KEY_SIZE), iv, data)
    IN  cipher \o HmacDigest(Drop(key, AES_KEY_SIZE), cipher)

\* aes_encrypt_iv(key, data, iv): cipher + sig
aes_encrypt_iv(key, data, iv) ==
    LET aes_key  == Take(key, AES_KEY_SIZE)
        hmac_key == Drop(key, AES_KEY_SIZE)
        cipher   == AesCtr(aes_key, iv, data)
        sig      == HmacDigest(hmac_key, iv \o cipher)
    IN  cipher \o sig

\* Mutant of aes_encrypt: the IV drawn is dropped for a fixed one.
aes_encrypt_fixed_iv(key, data, iv) ==
    LET fixed == [i \in 1..IV_SIZE |-> 0]
    IN  V1_MARKER \o fixed \o aes_encrypt_iv(key, data, fixed)

\* aes_encrypt(key, data) with the IV that os.urandom(IV_SIZE) returned.
aes_encrypt(key, data, iv) == V1_MARKER \o iv \o aes_encrypt_iv(key, data, iv)

\* aes_decrypt, lines 82-92: the leading byte and the IV field it selects.
SplitEnvelope(data) ==
    LET extracted_version == Take(data, 1)
        rest == Drop(data, 1)
    IN  IF extracted_version = V0_MARKER
        THEN [version |-> extracted_version,
              iv      |-> Take(rest, V0_IV_SIZE),
              data    |-> Drop(rest, V0_IV_SIZE)]
        ELSE [version |-> extracted_version,
              iv      |-> Take(rest, IV_SIZE),
              data    |-> Drop(rest, IV_SIZE)]

\* Mutant of SignatureMatches: the signature is never compared.
SignatureUnchecked(key, data, iv) == Len(key) = KEY_LENGTH

\* aes_decrypt_iv, lines 113-118: the signature check.
SignatureMatches(key, data, iv) ==
    LET hmac_key == Drop(key, AES_KEY_SIZE)
        sig_size == HMAC_DIGEST_SIZE
        cipher   == DropLast(data, sig_size)
        sig      == TakeLast(data, sig_size)
    IN  HmacDigest(hmac_key, iv \o cipher) = sig

\* Mutant of CounterIv: version 0 keeps the first IV_SIZE bytes.
CounterIvFirstBytes(iv, extracted_version) == Take(iv, IV_SIZE)

\* aes_decrypt_iv, lines 126-127: version 0 uses the last IV_SIZE bytes.
CounterIv(iv, extracted_version) ==
    IF extracted_version = V0_MARKER THEN Drop(iv, IV_SIZE) ELSE iv

\* Mutant of DecryptCipher: the decryptor is keyed with the wrong half.
DecryptCipherWrongHalf(key, data, iv, extracted_version) ==
    LET wrong_key == Drop(key, AES_KEY_SIZE)
        cipher    == DropLast(data, HMAC_DIGEST_SIZE)
    IN  AesCtr(wrong_key, CounterIv(iv, extracted_version), cipher)

\* Mutant of DecryptCipher: the signature is decrypted with the cipher.
DecryptCipherWithTag(key, data, iv, extracted_version) ==
    LET aes_key == Take(key, AES_KEY_SIZE)
    IN  AesCtr(aes_key, CounterIv(iv, extracted_version), data)

\* aes_decrypt_iv, lines 129-132: counter-mode decryption of the cipher.
DecryptCipher(key, data, iv, extracted_version) ==
    LET aes_key == Take(key, AES_KEY_SIZE)
        cipher  == DropLast(data, HMAC_DIGEST_SIZE)
    IN  AesCtr(aes_key, CounterIv(iv, extracted_version), cipher)

\* aes_decrypt(key, data), lines 81-94, with aes_decrypt_iv, lines 113-132,
\* as a function of its two arguments: the exception raised, or the value
\* returned.
aes_decrypt(key, data) ==
    IF Len(key) # KEY_LENGTH THEN [status |-> "AssertionError", value |-> <<>>]
    ELSE IF data = <<>> THEN [status |-> "IndexError", value |-> <<>>]
    ELSE LET p == SplitEnvelope(data)
         IN  IF ~SignatureMatches(key, p.data, p.iv)
             THEN [status |-> "AuthenticationError", value |-> <<>>]
             ELSE IF Len(CounterIv(p.iv, p.version)) # IV_SIZE
             THEN [status |-> "ValueError", value |-> <<>>]
             ELSE [status |-> "ok",
                   value  |-> DecryptCipher(key, p.data, p.iv, p.version)]

\* ------------------------------------------------- writers of older data
\* Version 0 as the module docstring (lines 3-13) and the specification give
\* it: marker 0, a 32-byte IV field of which the trailing 16 bytes drove the
\* counter, the signature over the whole field and the cipher.
LegacyAEnvelope(key, data, iv32) ==
    LET cipher == AesCtr(Take(key, AES_KEY_SIZE), Drop(iv32, IV_SIZE), data)
        sig    == HmacDigest(Drop(key, AES_KEY_SIZE), iv32 \o cipher)
    IN  V0_MARKER \o iv32 \o cipher \o sig

\* The intermediate format of the specification: the 2-byte literal "v2",
\* a 16-byte IV, the cipher and the signature over IV and cipher.
V2_MARKER == <<118, 50>>
LegacyBEnvelope(key, data, iv) == V2_MARKER \o iv \o aes_encrypt_iv(key, data, iv)

\* --------------------------------------------------------------- inputs
AesHalf(a) == [i \in 1..AES_KEY_SIZE |-> (a * 53 + i * 7) % 256]
MacHalf(m) == [i \in 1..HMAC_KEY_SIZE |-> (m * 101 + i * 11 + 5) % 256]
MkKey(a, m) == AesHalf(a) \o MacHalf(m)
\* Four keys: every pair shares, or differs in, each half.
Keys == {MkKey(a, m) : a \in {1, 2}, m \in {1, 2}}

IvA == [i \in 1..IV_SIZE |-> (i * 13 + 1) % 256]
\* The all-ones nonce: its counter wraps in the second block.
IvB == [i \in 1..IV_SIZE |-> 255]
IVs == {IvA, IvB}
V0IVs == {IvA \o IvB, IvB \o IvA}

PlainBytes == {0, 116}
\* One plaintext longer than a cipher block.
LongPlain == [i \in 1..(IV_SIZE + MaxLen) |-> (i * 29 + 3) % 256]
Plaintexts == UNION {[1..n -> PlainBytes] : n \in 0..MaxLen} \cup {LongPlain}

\* Byte strings of the wrong size handed over as keys: 63 and 65 bytes.
ShortKey == DropLast(MkKey(1, 1), 1)
LongKey == MkKey(1, 1) \o <<9>>
BadKeys == {ShortKey, LongKey}

\* key_list of an EncryptedStringField: one key or a list of keys.
KeyLists(bound) == UNION {[1..n -> Keys] : n \in 1..bound}

FlipBit(s, pos, bit) == [s EXCEPT ![pos] = Xor(s[pos], 2 ^ bit)]

\* ---------------------------------------------------------------- state
VARIABLES
    key_list,   \* EncryptedStringField.key_list, fixed at construction
    blob,       \* the stored envelope (the value handed to _decrypt)
    origin,     \* how blob came to be: writer, key, IV, plaintext, bit flipped
    pc,         \* position of the running _decrypt call
    idx,        \* position of the for loop of _decrypt in key_list
    parsed,     \* aes_decrypt's locals after slicing: version, iv, data
    attempts,   \* the aes_decrypt calls of this _decrypt call that have ended
    hmac_runs,  \* signatures computed by this _decrypt call
    ctr_runs,   \* counter-mode decryptions run by this _decrypt call
    result,     \* how the _decrypt call ended
    enc,        \* how the last aes_encrypt call ended, and the IVs it drew
    ctor,       \* how EncryptedStringField.__init__ ended
    py,         \* the last to_mongo / to_python call and what it returned
    prev,       \* the stored value that the last to_mongo call replaced
    calls,      \* the aes_encrypt / aes_decrypt calls of concurrent threads
    clock,      \* what datetime.datetime.utcnow() returns now
    doc,        \* a DocumentBase instance in memory
    db,         \* the stored document of that instance
    log,        \* the last DocumentBase call, and the stored dates before it
    forbidden_queries,  \* ForbiddenQueriesQuerySet.forbidden_queries of the class
    is_testing, \* current_app.testing, False outside an application context
    qs,         \* a ForbiddenQueriesQuerySet instance
    qlast,      \* the last call on that queryset and how it ended
    rdoc,       \* a RandomPKDocument instance in memory
    coll,       \* the ids of the documents stored in its collection
    rcall,      \* the running or last save() call of that instance
    sdoc,       \* a SoftDeleteDocument instance in memory
    sdb,        \* the stored document of that instance
    slog,       \* the last call on that instance and what was stored before
    sq,         \* the last query of the class's managers and what it found
    _all_objs_queryset  \* the queryset the class keeps for all_objects

cryptoVars == <<key_list, blob, origin, pc, idx, parsed, attempts, hmac_runs,
                ctr_runs, result>>
adapterVars == <<ctor, py, prev>>
threadVars == <<calls>>
docVars == <<clock, doc, db, log>>
querysetVars == <<forbidden_queries, is_testing, qs, qlast>>
randomPkVars == <<rdoc, coll, rcall>>
softVars == <<sdoc, sdb, slog, sq, _all_objs_queryset>>
mongoVars == <<querysetVars, randomPkVars, softVars>>
\* The state outside EncryptedStringField, and outside the functions of
\* flask_common.crypto called one at a time.
outsideField == <<threadVars, docVars, mongoVars>>
outsideCrypto == <<adapterVars, outsideField>>

vars == <<cryptoVars, enc, adapterVars, threadVars, docVars, mongoVars>>

NoOrigin == [kind |-> "none", key |-> <<>>, iv |-> <<>>, plain |-> <<>>, flip |-> <<>>]
NoParse == [version |-> <<>>, iv |-> <<>>, data |-> <<>>]
NoResult == [status |-> "none", value |-> <<>>]

callVars == <<pc, idx, parsed, attempts, hmac_runs, ctr_runs, result>>

\* Python values of the adapter: None, a text (code points) or a byte string.
PyNone == [t |-> "none", v |-> <<>>]
PyText(s) == [t |-> "text", v |-> s]
PyBytes(s) == [t |-> "bytes", v |-> s]
\* The truth value Python's "and" / "or" test.
Truthy(x) == x.t # "none" /\ x.v # <<>>

NoEnc == [status |-> "none", urandom |-> 0, key |-> <<>>]
\* A list or tuple of keys, as __init__ may be given.
PyList(l) == [t |-> "list", v |-> l]

NoCtor == [status |-> "none", arg |-> PyNone]
\* The last adapter call: its argument, how it ended, what it returned and
\* the aes_encrypt / aes_decrypt calls it made; saved is the value of the
\* last to_mongo call and key the position of the key that decrypted in the
\* last to_python call.
NoPy == [op |-> "none", arg |-> PyNone, status |-> "none", value |-> PyNone,
         encrypts |-> 0, decrypts |-> 0, saved |-> PyNone, key |-> 0]
NoPrev == [blob |-> <<>>, origin |-> NoOrigin, enc |-> NoEnc]
NoCalls == <<>>
\* A date field that is None.
NoDate == 0
\* A new instance: no primary key, None in both date fields, no field
\* changed; and a collection that holds no document for it.
NoDoc == [pk |-> FALSE, text |-> "", date_created |-> NoDate,
          date_updated |-> NoDate, changed |-> {}]
NoDb == [exists |-> FALSE, text |-> "", date_created |-> NoDate,
         date_updated |-> NoDate]
\* No keyword arguments.
NoKwargs == [k \in {} |-> 0]
NoLog == [op |-> "none", status |-> "none", at |-> 0, prev_at |-> 0,
          before |-> NoDb, first_save |-> 0, explicit |-> FALSE,
          update_date |-> TRUE, kwargs |-> NoKwargs]

\* Python values of a query: an int or None, a scalar, a list, a tuple and
\* a dict with string keys.
PyInt(n) == [t |-> "int", v |-> n]
NoneInt == [t |-> "none", v |-> 0]
PyScalar(x) == [t |-> "scalar", v |-> x]
PyTuple(l) == [t |-> "tuple", v |-> l]
PyDict(f) == [t |-> "dict", v |-> f]
EmptyDict == PyDict(NoKwargs)
\* The class attribute as ForbiddenQueriesQuerySet declares it: None.
NoForbiddenQueries == [t |-> "none", v |-> <<>>]
\* A queryset as the manager hands it out: not marked safe, not empty, no
\* filter, no ordering, no limit.
NoQs == [marked_as_safe |-> FALSE, none |-> FALSE, query |-> EmptyDict,
         ordering |-> "None", limit |-> NoneInt]
NoIdxKey == [t |-> "none", v |-> NoneInt]
NoQlast == [op |-> "none", idx_key |-> NoIdxKey, status |-> "none",
            marked |-> FALSE, shape |-> EmptyDict]

\* An id that is None, and a new RandomPKDocument instance; no save() has
\* run.
NoId == "None"
NoRdoc == [id |-> NoId]
NoRcall == [pc |-> "idle", old_id |-> NoId, entry_id |-> NoId,
            force_insert |-> FALSE, caller_force |-> FALSE, depth |-> 0,
            tries |-> <<>>, status |-> "none"]
\* A new SoftDeleteDocument instance (is_deleted defaults to False, line
\* 112), no stored document, no call and no query yet.
NoSdoc == [pk |-> FALSE, is_deleted |-> "False", changed |-> FALSE]
NoSdb == [exists |-> FALSE, is_deleted |-> "absent"]
NoSlog == [op |-> "none", arg |-> "absent", kwargs |-> NoKwargs,
           status |-> "none", before |-> NoSdb, memory |-> NoSdoc]
NoSq == [op |-> "none", found |-> FALSE, count |-> 0, cursor |-> "absent"]

\* No queryset of ForbiddenQueriesQuerySet has been used yet.
InitQueryset ==
    /\ forbidden_queries = NoForbiddenQueries
    /\ is_testing = FALSE
    /\ qs = NoQs
    /\ qlast = NoQlast

InitRandomPk ==
    /\ rdoc = NoRdoc
    /\ coll = {}
    /\ rcall = NoRcall

InitSoft ==
    /\ sdoc = NoSdoc
    /\ sdb = NoSdb
    /\ slog = NoSlog
    /\ sq = NoSq
    /\ _all_objs_queryset = "absent"

\* No class of flask_common.mongo.documents has been used yet.
InitMongo == InitQueryset /\ InitRandomPk /\ InitSoft

\* Nothing has run yet outside the stored value and the _decrypt call.
InitOutside ==
    /\ enc = NoEnc
    /\ py = NoPy
    /\ prev = NoPrev
    /\ calls = NoCalls
    /\ clock = 1
    /\ doc = NoDoc
    /\ db = NoDb
    /\ log = NoLog
    /\ InitMongo

InitCall ==
    /\ pc = "idle"
    /\ idx = 0
    /\ parsed = NoParse
    /\ attempts = <<>>
    /\ hmac_runs = 0
    /\ ctr_runs = 0
    /\ result = NoResult

\* A field constructed with a key or a list of keys (__init__, lines 36-42).
Init ==
    /\ key_list \in KeyLists(MaxRing)
    /\ ctor = [status |-> "ok", arg |-> PyList(key_list)]
    /\ blob = <<>>
    /\ origin = NoOrigin
    /\ InitCall
    /\ InitOutside

\* The functions of flask_common.crypto called with one key.
InitCrypto ==
    /\ key_list \in KeyLists(1)
    /\ ctor = NoCtor
    /\ blob = <<>>
    /\ origin = NoOrigin
    /\ InitCall
    /\ InitOutside

\* The model follows one stored value: it is written once, by aes_encrypt or
\* by one of the older writers, may be altered in storage, and is then read
\* any number of times.

\* Mutant of Encrypt: the key size is not asserted.
EncryptUnchecked(key, data, iv) ==
    /\ pc = "idle"
    /\ origin.kind = "none"
    /\ enc' = [status |-> "ok", urandom |-> 1, key |-> key]
    /\ blob' = aes_encrypt(key, data, iv)
    /\ origin' = [kind |-> "v1", key |-> key, iv |-> iv, plain |-> data, flip |-> <<>>]
    /\ UNCHANGED <<key_list, callVars>>
    /\ UNCHANGED outsideCrypto

\* aes_encrypt(key, data), lines 74-76: asserts the key size, then draws the
\* IV (iv is what os.urandom returns) and writes a version 1 envelope.
Encrypt(key, data, iv) ==
    /\ pc = "idle"
    /\ origin.kind = "none"
    /\ IF Len(key) # KEY_LENGTH
       THEN /\ enc' = [status |-> "AssertionError", urandom |-> 0, key |-> key]
            /\ UNCHANGED <<blob, origin>>
       ELSE /\ enc' = [status |-> "ok", urandom |-> 1, key |-> key]
            /\ blob' = aes_encrypt(key, data, iv)
            /\ origin' = [kind |-> "v1", key |-> key, iv |-> iv, plain |-> data,
                          flip |-> <<>>]
    /\ UNCHANGED <<key_list, callVars>>
    /\ UNCHANGED outsideCrypto

\* Data written by the version 0 encrypt function.
LegacyAWrite(key, data, iv32) ==
    /\ pc = "idle"
    /\ origin.kind = "none"
    /\ blob' = LegacyAEnvelope(key, data, iv32)
    /\ origin' = [kind |-> "v0", key |-> key, iv |-> iv32, plain |-> data, flip |-> <<>>]
    /\ UNCHANGED <<key_list, callVars>>
    /\ UNCHANGED <<enc, outsideCrypto>>

\* Data written in the intermediate format.
LegacyBWrite(key, data, iv) ==
    /\ pc = "idle"
    /\ origin.kind = "none"
    /\ blob' = LegacyBEnvelope(key, data, iv)
    /\ origin' = [kind |-> "v2", key |-> key, iv |-> iv, plain |-> data, flip |-> <<>>]
    /\ UNCHANGED <<key_list, callVars>>
    /\ UNCHANGED <<enc, outsideCrypto>>

\* One bit of an envelope that aes_encrypt produced is changed in storage.
Tamper(pos, bit) ==
    /\ pc = "idle"
    /\ origin.kind = "v1"
    /\ origin.flip = <<>>
    /\ pos \in 1..Len(blob)
    /\ blob' = FlipBit(blob, pos, bit)
    /\ origin' = [origin EXCEPT !.flip = <<pos, bit>>]
    /\ UNCHANGED <<key_list, callVars>>
    /\ UNCHANGED <<enc, outsideCrypto>>

\* Mutant of DecryptStart: the loop starts at the last key of the list.
DecryptStartAtLast ==
    /\ pc = "idle"
    /\ origin.kind # "none"
    /\ pc' = "loop"
    /\ idx' = Len(key_list)
    /\ UNCHANGED <<key_list, blob, origin, parsed, attempts, hmac_runs, ctr_runs, result>>
    /\ UNCHANGED <<enc, outsideCrypto>>

\* _decrypt(data) is entered (line 61): the for loop starts at the first key.
DecryptStart ==
    /\ pc = "idle"
    /\ origin.kind # "none"
    /\ pc' = "loop"
    /\ idx' = 1
    /\ UNCHANGED <<key_list, blob, origin, parsed, attempts, hmac_runs, ctr_runs, result>>
    /\ UNCHANGED <<enc, outsideCrypto>>

\* Mutant of AesDecryptSplit: a failed key-size assertion and an index error
\* are passed over like a failed authentication.
AesDecryptSplitPassesOver ==
    /\ pc = "loop"
    /\ idx <= Len(key_list)
    /\ IF Len(key_list[idx]) # KEY_LENGTH \/ Len(blob) = 0
       THEN /\ pc' = "loop"
            /\ idx' = idx + 1
            /\ UNCHANGED <<parsed, result>>
       ELSE /\ pc' = "verify"
            /\ parsed' = SplitEnvelope(blob)
            /\ UNCHANGED <<idx, result>>
    /\ UNCHANGED <<key_list, blob, origin, attempts, hmac_runs, ctr_runs>>
    /\ UNCHANGED <<enc, outsideCrypto>>

\* aes_decrypt(key, data), lines 81-94, for the next key of the loop: the
\* key-size assertion, the version byte and the IV slices.
AesDecryptSplit ==
    /\ pc = "loop"
    /\ idx <= Len(key_list)
    /\ IF Len(key_list[idx]) # KEY_LENGTH
       THEN /\ pc' = "raised"
            /\ result' = [status |-> "AssertionError", value |-> <<>>]
            /\ UNCHANGED parsed
       ELSE IF Len(blob) = 0
       THEN /\ pc' = "raised"
            /\ result' = [status |-> "IndexError", value |-> <<>>]
            /\ UNCHANGED parsed
       ELSE /\ pc' = "verify"
            /\ parsed' = SplitEnvelope(blob)
            /\ UNCHANGED result
    /\ UNCHANGED <<key_list, blob, origin, idx, attempts, hmac_runs, ctr_runs>>
    /\ UNCHANGED <<enc, outsideCrypto>>

\* Mutant of AesDecryptVerify: the AuthenticationError is not caught, so the
\* first failing key ends the _decrypt call.
AesDecryptVerifyNoCatch ==
    /\ pc = "verify"
    /\ hmac_runs' = hmac_runs + 1
    /\ IF SignatureMatches(key_list[idx], parsed.data, parsed.iv)
       THEN /\ pc' = "ctr"
            /\ UNCHANGED <<idx, attempts, result>>
       ELSE /\ pc' = "raised"
            /\ attempts' = Append(attempts, [key |-> idx, status |-> "AuthenticationError"])
            /\ result' = [status |-> "AuthenticationError", value |-> <<>>]
            /\ UNCHANGED idx
    /\ UNCHANGED <<key_list, blob, origin, parsed, ctr_runs>>
    /\ UNCHANGED <<enc, outsideCrypto>>

\* aes_decrypt_iv, lines 113-119: the signature is recomputed and compared.
\* A mismatch raises AuthenticationError, which _decrypt catches (line 65)
\* to go on with the next key.
AesDecryptVerify ==
    /\ pc = "verify"
    /\ hmac_runs' = hmac_runs + 1
    /\ IF SignatureMatches(key_list[idx], parsed.data, parsed.iv)
       THEN /\ pc' = "ctr"
            /\ UNCHANGED <<idx, attempts>>
       ELSE /\ pc' = "loop"
            /\ attempts' = Append(attempts, [key |-> idx, status |-> "AuthenticationError"])
            /\ idx' = idx + 1
    /\ UNCHANGED <<key_list, blob, origin, parsed, ctr_runs, result>>
    /\ UNCHANGED <<enc, outsideCrypto>>

\* aes_decrypt_iv, lines 126-132: the counter-mode decryption, whose result
\* aes_decrypt and _decrypt return (line 64).  modes.CTR refuses a nonce
\* that is not IV_SIZE bytes long.
AesDecryptCtr ==
    /\ pc = "ctr"
    /\ IF Len(CounterIv(parsed.iv, parsed.version)) # IV_SIZE
       THEN /\ pc' = "raised"
            /\ result' = [status |-> "ValueError", value |-> <<>>]
            /\ UNCHANGED <<attempts, ctr_runs>>
       ELSE /\ pc' = "returned"
            /\ ctr_runs' = ctr_runs + 1
            /\ attempts' = Append(attempts, [key |-> idx, status |-> "ok"])
            /\ result' = [status |-> "ok",
                          value  |-> DecryptCipher(key_list[idx], parsed.data,
                                                   parsed.iv, parsed.version)]
    /\ UNCHANGED <<key_list, blob, origin, idx, parsed, hmac_runs>>
    /\ UNCHANGED <<enc, outsideCrypto>>

\* Mutant of DecryptExhausted: the exhausted loop returns an empty value.
DecryptExhaustedSilent ==
    /\ pc = "loop"
    /\ idx > Len(key_list)
    /\ pc' = "returned"
    /\ result' = [status |-> "ok", value |-> <<>>]
    /\ UNCHANGED <<key_list, blob, origin, idx, parsed, attempts, hmac_runs, ctr_runs>>
    /\ UNCHANGED <<enc, outsideCrypto>>

\* _decrypt, line 68: the loop ended without a return.
DecryptExhausted ==
    /\ pc = "loop"
    /\ idx > Len(key_list)
    /\ pc' = "raised"
    /\ result' = [status |-> "AuthenticationError", value |-> <<>>]
    /\ UNCHANGED <<key_list, blob, origin, idx, parsed, attempts, hmac_runs, ctr_runs>>
    /\ UNCHANGED <<enc, outsideCrypto>>

\* The caller has the outcome; the next operation starts from a clean call.
Finish ==
    /\ pc \in {"returned", "raised"}
    /\ pc' = "idle"
    /\ idx' = 0
    /\ parsed' = NoParse
    /\ attempts' = <<>>
    /\ hmac_runs' = 0
    /\ ctr_runs' = 0
    /\ result' = NoResult
    /\ UNCHANGED <<key_list, blob, origin>>
    /\ UNCHANGED <<enc, outsideCrypto>>

Write ==
    \/ \E key \in Keys, data \in Plaintexts, iv \in IVs : Encrypt(key, data, iv)
    \/ \E key \in Keys, data \in Plaintexts, iv32 \in V0IVs : LegacyAWrite(key, data, iv32)
    \/ \E key \in Keys, data \in Plaintexts, iv \in IVs : LegacyBWrite(key, data, iv)

Decrypt ==
    \/ DecryptStart
    \/ AesDecryptSplit
    \/ AesDecryptVerify
    \/ AesDecryptCtr
    \/ DecryptExhausted
    \/ Finish

Next == Write \/ Decrypt

Spec == Init /\ [][Next]_vars

\* The altered envelope is then read with the key that wrote it.
TamperAny ==
    /\ key_list = <<origin.key>>
    /\ \E pos \in 1..Len(blob), bit \in 0..7 : Tamper(pos, bit)

NextCrypto == Write \/ TamperAny \/ Decrypt

SpecCrypto == InitCrypto /\ [][NextCrypto]_vars

\* ----------------------------------------- arbitrary arguments of the calls
\* aes_encrypt and aes_decrypt called directly with one byte string as the
\* key, of the right size or not.
InitInput ==
    /\ key_list \in {<<k>> : k \in Keys \cup BadKeys}
    /\ ctor = NoCtor
    /\ blob = <<>>
    /\ origin = NoOrigin
    /\ InitCall
    /\ InitOutside

EncryptAnyKey ==
    \E key \in Keys \cup BadKeys, data \in Plaintexts, iv \in IVs :
        Encrypt(key, data, iv)

LegacyAWriteAny ==
    \E key \in Keys, data \in Plaintexts, iv32 \in V0IVs :
        LegacyAWrite(key, data, iv32)

\* Only the first n bytes of the envelope reach aes_decrypt, n = 0 included.
Truncate(n) ==
    /\ pc = "idle"
    /\ origin.kind \in {"v0", "v1"}
    /\ key_list = <<origin.key>>
    /\ n < Len(blob)
    /\ blob' = Take(blob, n)
    /\ origin' = [origin EXCEPT !.kind = "short"]
    /\ UNCHANGED <<key_list, callVars>>
    /\ UNCHANGED <<enc, outsideCrypto>>

TruncateAny == \E n \in 0..(V0_IV_SIZE + HMAC_DIGEST_SIZE + IV_SIZE + MaxLen) : Truncate(n)

NextInput == EncryptAnyKey \/ LegacyAWriteAny \/ TruncateAny \/ Decrypt

SpecInput == InitInput /\ [][NextInput]_vars

\* ---------------------------------------------------- concurrent calls
\* Threads that call aes_encrypt and aes_decrypt at the same time.  Each
\* call has its arguments and its local variables; the module has no
\* variable that a call assigns (backend, line 36, is only read).
Threads == 1..MaxThreads

ThreadKeys == {MkKey(1, 1), MkKey(2, 2)}
ThreadPlain == <<116, 101>>
\* Envelopes handed to aes_decrypt: one of each version.
ThreadEnvelopes ==
    {aes_encrypt(MkKey(1, 1), ThreadPlain, IvA),
     LegacyAEnvelope(MkKey(2, 2), ThreadPlain, IvB \o IvA)}

IdleCall == [op |-> "none", key |-> <<>>, data |-> <<>>, pc |-> "idle",
             version |-> <<>>, iv |-> <<>>, rest |-> <<>>, cipher |-> <<>>,
             result |-> NoResult]

InitThreads ==
    /\ key_list = <<>>
    /\ ctor = NoCtor
    /\ blob = <<>>
    /\ origin = NoOrigin
    /\ InitCall
    /\ enc = NoEnc
    /\ py = NoPy
    /\ prev = NoPrev
    /\ calls = [t \in Threads |-> IdleCall]
    /\ clock = 1
    /\ doc = NoDoc
    /\ db = NoDb
    /\ log = NoLog
    /\ InitMongo

otherThanThreads == <<cryptoVars, enc, adapterVars, docVars, mongoVars>>

\* Thread t calls aes_encrypt(key, data) or aes_decrypt(key, data).
ThreadCall(t, op, key, data) ==
    /\ calls[t].pc = "idle"
    /\ calls' = [calls EXCEPT ![t] = [IdleCall EXCEPT !.op = op, !.key = key,
                                                      !.data = data, !.pc = op]]
    /\ UNCHANGED otherThanThreads

\* aes_encrypt, lines 74-75: the assertion and the IV that os.urandom
\* returns to this call.
ThreadEncryptDraw(t, iv) ==
    /\ calls[t].pc = "aes_encrypt"
    /\ calls' = [calls EXCEPT ![t] =
           IF Len(calls[t].key) # KEY_LENGTH
           THEN [@ EXCEPT !.pc = "done",
                          !.result = [status |-> "AssertionError", value |-> <<>>]]
           ELSE [@ EXCEPT !.pc = "encrypt_iv", !.iv = iv]]
    /\ UNCHANGED otherThanThreads

\* aes_encrypt_iv, lines 100-105: the cipher.
ThreadEncryptCipher(t) ==
    /\ calls[t].pc = "encrypt_iv"
    /\ calls' = [calls EXCEPT ![t] =
           [@ EXCEPT !.pc = "sign",
                     !.cipher = AesCtr(Take(calls[t].key, AES_KEY_SIZE),
                                       calls[t].iv, calls[t].data)]]
    /\ UNCHANGED otherThanThreads

\* aes_encrypt_iv, lines 106-107, and aes_encrypt, line 76: the signature
\* and the envelope returned.
ThreadEncryptSign(t) ==
    /\ calls[t].pc = "sign"
    /\ LET sig == HmacDigest(Drop(calls[t].key, AES_KEY_SIZE),
                             calls[t].iv \o calls[t].cipher)
       IN  calls' = [calls EXCEPT ![t] =
               [@ EXCEPT !.pc = "done",
                         !.result = [status |-> "ok",
                                     value  |-> V1_MARKER \o calls[t].iv
                                                  \o calls[t].cipher \o sig]]]
    /\ UNCHANGED otherThanThreads

\* Mutant of ThreadDecryptSplit: extracted_version, iv and data are kept in
\* module variables, so the assignment reaches every call that is between
\* its own slicing and its return.
ThreadDecryptSplitShared(t) ==
    /\ calls[t].pc = "aes_decrypt"
    /\ LET p == SplitEnvelope(calls[t].data)
       IN  calls' = [u \in Threads |->
               IF u = t \/ calls[u].pc \in {"verify", "ctr"}
               THEN [calls[u] EXCEPT !.pc = IF u = t THEN "verify" ELSE @,
                                     !.version = p.version, !.iv = p.iv,
                                     !.rest = p.data]
               ELSE calls[u]]
    /\ UNCHANGED otherThanThreads

\* aes_decrypt, lines 81-92: the assertion, the leading byte and the slices,
\* all in local variables of the call.
ThreadDecryptSplit(t) ==
    /\ calls[t].pc = "aes_decrypt"
    /\ calls' = [calls EXCEPT ![t] =
           IF Len(calls[t].key) # KEY_LENGTH
           THEN [@ EXCEPT !.pc = "done",
                          !.result = [status |-> "AssertionError", value |-> <<>>]]
           ELSE IF calls[t].data = <<>>
           THEN [@ EXCEPT !.pc = "done",
                          !.result = [status |-> "IndexError", value |-> <<>>]]
           ELSE LET p == SplitEnvelope(calls[t].data)
                IN  [@ EXCEPT !.pc = "verify", !.version = p.version,
                              !.iv = p.iv, !.rest = p.data]]
    /\ UNCHANGED otherThanThreads

\* aes_decrypt_iv, lines 113-119: the signature check.
ThreadDecryptVerify(t) ==
    /\ calls[t].pc = "verify"
    /\ calls' = [calls EXCEPT ![t] =
           IF SignatureMatches(calls[t].key, calls[t].rest, calls[t].iv)
           THEN [@ EXCEPT !.pc = "ctr"]
           ELSE [@ EXCEPT !.pc = "done",
                          !.result = [status |-> "AuthenticationError",
                                      value  |-> <<>>]]]
    /\ UNCHANGED otherThanThreads

\* aes_decrypt_iv, lines 126-132: the counter-mode decryption.
ThreadDecryptCtr(t) ==
    /\ calls[t].pc = "ctr"
    /\ calls' = [calls EXCEPT ![t] =
           IF Len(CounterIv(calls[t].iv, calls[t].version)) # IV_SIZE
           THEN [@ EXCEPT !.pc = "done",
                          !.result = [status |-> "ValueError", value |-> <<>>]]
           ELSE [@ EXCEPT !.pc = "done",
                          !.result = [status |-> "ok",
                                      value  |-> DecryptCipher(calls[t].key,
                                                     calls[t].rest, calls[t].iv,
                                                     calls[t].version)]]]
    /\ UNCHANGED otherThanThreads

\* The caller of thread t has the outcome.
ThreadReturn(t) ==
    /\ calls[t].pc = "done"
    /\ calls' = [calls EXCEPT ![t] = IdleCall]
    /\ UNCHANGED otherThanThreads

NextThreads ==
    \E t \in Threads :
        \/ \E key \in ThreadKeys : ThreadCall(t, "aes_encrypt", key, ThreadPlain)
        \/ \E key \in ThreadKeys, data \in ThreadEnvelopes :
               ThreadCall(t, "aes_decrypt", key, data)
        \/ \E iv \in IVs : ThreadEncryptDraw(t, iv)
        \/ ThreadEncryptCipher(t)
        \/ ThreadEncryptSign(t)
        \/ ThreadDecryptSplit(t)
        \/ ThreadDecryptVerify(t)
        \/ ThreadDecryptCtr(t)
        \/ ThreadReturn(t)

SpecThreads == InitThreads /\ [][NextThreads]_vars

\* --------------------------------------- _decrypt with keys of any size
\* key_list is the list object the caller gave to __init__ (line 43); what
\* it holds when _decrypt runs is the caller's to change.
RingKeys == {MkKey(1, 1), MkKey(2, 2)}
AnyKeyLists ==
    UNION {[1..n -> RingKeys \cup {ShortKey}] : n \in 1..MaxRing}

InitErrors ==
    /\ key_list \in AnyKeyLists
    /\ ctor = NoCtor
    /\ blob = <<>>
    /\ origin = NoOrigin
    /\ InitCall
    /\ InitOutside

WriteUnderFieldKey ==
    \/ \E key \in RingKeys, iv \in IVs : Encrypt(key, ThreadPlain, iv)
    \/ \E key \in RingKeys, iv32 \in V0IVs : LegacyAWrite(key, ThreadPlain, iv32)

\* _decrypt is handed the empty byte string.
EmptyInput ==
    /\ pc = "idle"
    /\ origin.kind = "none"
    /\ blob' = <<>>
    /\ origin' = [NoOrigin EXCEPT !.kind = "short"]
    /\ UNCHANGED <<key_list, callVars>>
    /\ UNCHANGED <<enc, outsideCrypto>>

NextErrors == WriteUnderFieldKey \/ EmptyInput \/ Decrypt

SpecErrors == InitErrors /\ [][NextErrors]_vars

\* --------------------------------------------------------- DocumentBase
\* One instance of a document class that inherits from DocumentBase, with a
\* text field next to the two date fields, and the document stored for it.
\* Dates are readings of the clock; NoDate is None.
DocTexts == {"aaa", "new"}

InitDoc ==
    /\ key_list = <<>>
    /\ ctor = NoCtor
    /\ blob = <<>>
    /\ origin = NoOrigin
    /\ InitCall
    /\ InitOutside

otherThanDoc == <<cryptoVars, enc, adapterVars, threadVars, mongoVars>>

\* Time passes between two calls of datetime.datetime.utcnow().
Tick ==
    /\ clock < MaxClock
    /\ clock' = clock + 1
    /\ UNCHANGED <<doc, db, log, otherThanDoc>>

\* doc.text = text: the instance remembers the field as changed.
SetText(text) ==
    /\ doc.text # text
    /\ doc' = [doc EXCEPT !.text = text, !.changed = @ \cup {"text"}]
    /\ UNCHANGED <<clock, db, log, otherThanDoc>>

\* What Document.save stores: the whole instance when it is inserted, the
\* changed fields when it is updated.
Stored(old, inst) ==
    IF ~inst.pk
    THEN [exists |-> TRUE, text |-> inst.text,
          date_created |-> inst.date_created, date_updated |-> inst.date_updated]
    ELSE [exists |-> TRUE,
          text |-> IF "text" \in inst.changed THEN inst.text ELSE old.text,
          date_created |-> IF "date_created" \in inst.changed
                           THEN inst.date_created ELSE old.date_created,
          date_updated |-> IF "date_updated" \in inst.changed
                           THEN inst.date_updated ELSE old.date_updated]

\* Mutant of Save: date_created is set on every save.
SaveRestampsCreated(update_date) ==
    LET now == clock
        stamped == IF update_date
                   THEN [doc EXCEPT !.date_created = now,
                                    !.date_updated = now,
                                    !.changed = @ \cup {"date_updated", "date_created"}]
                   ELSE doc
        valid == stamped.date_created # NoDate /\ stamped.date_updated # NoDate
    IN  /\ IF valid
           THEN /\ doc' = [stamped EXCEPT !.pk = TRUE, !.changed = {}]
                /\ db' = Stored(db, stamped)
           ELSE /\ doc' = stamped
                /\ db' = db
        /\ log' = [op |-> "save",
                   status |-> IF valid THEN "ok" ELSE "ValidationError",
                   at |-> now, prev_at |-> log.at, before |-> db,
                   first_save |-> IF valid /\ log.first_save = 0 THEN now
                                  ELSE log.first_save,
                   explicit |-> log.explicit \/ ~update_date,
                   update_date |-> update_date, kwargs |-> NoKwargs]
        /\ UNCHANGED <<clock, otherThanDoc>>

\* DocumentBase.save(update_date=...), lines 74-82: with update_date the
\* instance gets date_created = now if it has none and date_updated = now;
\* Document.save then validates (both dates are required) and stores.
\* The assignment of line 81 marks date_updated as changed when now differs
\* from the value the instance holds.  When the two are equal the field's
\* descriptor marks it or not, depending on the version of the library and
\* on whether the two datetimes can be compared (mark_equal); an unmarked
\* field is not written, so the stored date_updated stays as it is.
Save(update_date) ==
    \E mark_equal \in BOOLEAN :
    LET now == clock
        stamped == IF update_date
                   THEN [doc EXCEPT !.date_created = IF @ = NoDate THEN now ELSE @,
                                    !.date_updated = now,
                                    !.changed = @
                                        \cup (IF doc.date_updated # now \/ mark_equal
                                              THEN {"date_updated"} ELSE {})
                                        \cup (IF doc.date_created = NoDate
                                              THEN {"date_created"} ELSE {})]
                   ELSE doc
        valid == stamped.date_created # NoDate /\ stamped.date_updated # NoDate
    IN  /\ IF valid
           THEN /\ doc' = [stamped EXCEPT !.pk = TRUE, !.changed = {}]
                /\ db' = Stored(db, stamped)
           ELSE /\ doc' = stamped
                /\ db' = db
        /\ log' = [op |-> "save",
                   status |-> IF valid THEN "ok" ELSE "ValidationError",
                   at |-> now, prev_at |-> log.at, before |-> db,
                   first_save |-> IF valid /\ log.first_save = 0 THEN now
                                  ELSE log.first_save,
                   explicit |-> log.explicit \/ ~update_date,
                   update_date |-> update_date, kwargs |-> NoKwargs]
        /\ UNCHANGED <<clock, otherThanDoc>>

\* Mutant of WithDateUpdated: update_date is not looked at.
WithDateUpdatedAlways(update_date, kwargs, now) ==
    IF "set__date_updated" \notin DOMAIN kwargs
    THEN [k \in DOMAIN kwargs \cup {"set__date_updated"} |->
             IF k \in DOMAIN kwargs THEN kwargs[k] ELSE now]
    ELSE kwargs

\* The keyword arguments of modify and update once DocumentBase has added
\* its own (lines 85-87 and 91-93).
WithDateUpdated(update_date, kwargs, now) ==
    IF update_date /\ "set__date_updated" \notin DOMAIN kwargs
    THEN [k \in DOMAIN kwargs \cup {"set__date_updated"} |->
             IF k \in DOMAIN kwargs THEN kwargs[k] ELSE now]
    ELSE kwargs

\* DocumentBase.update(update_date=..., **kwargs), lines 90-94: the stored
\* document gets the set__ values, and date_updated = now unless the caller
\* says otherwise; the instance in memory is left as it is.  Document.update
\* refuses an instance that was never saved.
Update(update_date, kwargs) ==
    LET now == clock
        kw == WithDateUpdated(update_date, kwargs, now)
    IN  /\ IF doc.pk
           THEN db' = [exists |-> TRUE,
                       text |-> IF "set__text" \in DOMAIN kw
                                THEN kw["set__text"] ELSE db.text,
                       date_created |-> IF "set__date_created" \in DOMAIN kw
                                        THEN kw["set__date_created"]
                                        ELSE db.date_created,
                       date_updated |-> IF "set__date_updated" \in DOMAIN kw
                                        THEN kw["set__date_updated"]
                                        ELSE db.date_updated]
           ELSE db' = db
        /\ log' = [op |-> "update",
                   status |-> IF doc.pk THEN "ok" ELSE "OperationError",
                   at |-> now, prev_at |-> log.at, before |-> db,
                   first_save |-> log.first_save,
                   explicit |-> \/ log.explicit
                                \/ ~update_date
                                \/ "set__date_created" \in DOMAIN kwargs
                                \/ "set__date_updated" \in DOMAIN kwargs,
                   update_date |-> update_date, kwargs |-> kwargs]
        /\ UNCHANGED <<clock, doc, otherThanDoc>>

\* DocumentBase.modify(update_date=..., **kwargs), lines 84-88: the same
\* keyword arguments as update; Document.modify then updates the stored
\* document and loads the result into the instance.  It refuses an instance
\* without primary key.
Modify(update_date, kwargs) ==
    LET now == clock
        kw == WithDateUpdated(update_date, kwargs, now)
        updated == [exists |-> TRUE,
                    text |-> IF "set__text" \in DOMAIN kw
                             THEN kw["set__text"] ELSE db.text,
                    date_created |-> IF "set__date_created" \in DOMAIN kw
                                     THEN kw["set__date_created"]
                                     ELSE db.date_created,
                    date_updated |-> IF "set__date_updated" \in DOMAIN kw
                                     THEN kw["set__date_updated"]
                                     ELSE db.date_updated]
    IN  /\ IF doc.pk
           THEN /\ db' = updated
                /\ doc' = [pk |-> TRUE, text |-> updated.text,
                           date_created |-> updated.date_created,
                           date_updated |-> updated.date_updated,
                           changed |-> {}]
           ELSE /\ db' = db
                /\ doc' = doc
        /\ log' = [op |-> "modify",
                   status |-> IF doc.pk THEN "ok" ELSE "InvalidDocumentError",
                   at |-> now, prev_at |-> log.at, before |-> db,
                   first_save |-> log.first_save,
                   explicit |-> \/ log.explicit
                                \/ ~update_date
                                \/ "set__date_created" \in DOMAIN kwargs
                                \/ "set__date_updated" \in DOMAIN kwargs,
                   update_date |-> update_date, kwargs |-> kwargs]
        /\ UNCHANGED <<clock, otherThanDoc>>

\* doc.reload(): the instance takes the stored values.
Reload ==
    /\ doc.pk
    /\ doc' = [pk |-> TRUE, text |-> db.text, date_created |-> db.date_created,
               date_updated |-> db.date_updated, changed |-> {}]
    /\ UNCHANGED <<clock, db, log, otherThanDoc>>

\* The calls with the default update_date and no date among the arguments.
SaveDefault == Save(TRUE)
UpdateDefault == \E kwargs \in [{"set__text"} -> DocTexts] : Update(TRUE, kwargs)
SetTextAny == \E text \in DocTexts : SetText(text)

NextDoc == Tick \/ SetTextAny \/ SaveDefault \/ UpdateDefault \/ Reload

SpecDoc == InitDoc /\ [][NextDoc]_vars

\* The calls with any update_date and any of the three fields among the
\* keyword arguments; a caller's date is a date the clock never shows.
CallerDates == {MaxClock + 1}
DocKwargs ==
    {[k \in keys |-> IF k = "set__text" THEN text
                     ELSE IF k = "set__date_created" THEN created
                     ELSE updated] :
        keys \in SUBSET {"set__text", "set__date_created", "set__date_updated"},
        text \in {"new"}, created \in CallerDates, updated \in CallerDates}
SaveAny == \E update_date \in BOOLEAN : Save(update_date)
UpdateAny ==
    \E update_date \in BOOLEAN, kwargs \in DocKwargs : Update(update_date, kwargs)
ModifyAny ==
    \E update_date \in BOOLEAN, kwargs \in DocKwargs : Modify(update_date, kwargs)

NextDocAny == Tick \/ SetTextAny \/ SaveAny \/ UpdateAny \/ ModifyAny \/ Reload

SpecDocAny == InitDoc /\ [][NextDocAny]_vars

\* ---------------------------------------------- ForbiddenQueriesQuerySet
\* Mutant of _get_query_shape: a nested dict is a value like any other.
_get_query_shape_flat(query) ==
    IF DOMAIN query.v = {} THEN query
    ELSE PyDict([key \in DOMAIN query.v |->
                    LET val == query.v[key]
                    IN  IF val.t \in {"list", "tuple"} THEN PyList(<<>>)
                        ELSE PyScalar(1)])

\* _get_query_shape(query), lines 221-240: a falsy query is returned as it
\* is; otherwise every key is kept, with the shape of a nested dict, [] for
\* a list or tuple and 1 for anything else.
RECURSIVE _get_query_shape(_)
_get_query_shape(query) ==
    IF DOMAIN query.v = {} THEN query
    ELSE PyDict([key \in DOMAIN query.v |->
                    LET val == query.v[key]
                    IN  IF val.t = "dict" THEN _get_query_shape(val)
                        ELSE IF val.t \in {"list", "tuple"} THEN PyList(<<>>)
                        ELSE PyScalar(1)])

\* forbidden.get('orderings') is falsy, or the ordering is in the list
\* (line 188).
OrderingCovered(forbidden, ordering) ==
    \/ forbidden.orderings.t # "list"
    \/ forbidden.orderings.v = <<>>
    \/ \E i \in DOMAIN forbidden.orderings.v : forbidden.orderings.v[i] = ordering

\* The limit the check compares (lines 192-197): objects.limit, else the
\* stop of a slice or the index itself.
EffectiveLimit(limit, idx_key) ==
    IF limit.t = "none" /\ idx_key.t # "none" THEN idx_key.v ELSE limit

\* forbidden.get('max_allowed_limit', 0), line 199.
MaxAllowedLimit(forbidden) ==
    IF forbidden.max_allowed_limit.t = "absent" THEN PyInt(0)
    ELSE forbidden.max_allowed_limit

\* limit > max_allowed_limit for an int limit as Python 2 orders the two:
\* every int is greater than None.
GreaterThan(limit, max_allowed_limit) ==
    IF max_allowed_limit.t = "none" THEN TRUE ELSE limit.v > max_allowed_limit.v

\* One turn of the loop over forbidden_queries raises (lines 186-204).
Forbids(forbidden, self, idx_key) ==
    /\ _get_query_shape(self.query) = forbidden.query_shape
    /\ OrderingCovered(forbidden, self.ordering)
    /\ LET limit == EffectiveLimit(self.limit, idx_key)
       IN  limit.t = "none" \/ GreaterThan(limit, MaxAllowedLimit(forbidden))

\* Mutant of _check_for_forbidden_queries: the safe mark is not looked at.
_check_ignoring_safe_mark(self, idx_key) ==
    IF self.none \/ is_testing THEN "ok"
    ELSE IF forbidden_queries.t = "none" THEN "TypeError"
    ELSE IF \E i \in DOMAIN forbidden_queries.v :
                Forbids(forbidden_queries.v[i], self, idx_key)
         THEN "ForbiddenQueryException"
    ELSE "ok"

\* _check_for_forbidden_queries(idx_key), lines 172-204: how the check
\* ends.  Iterating over the class default None is a TypeError.
_check_for_forbidden_queries(self, idx_key) ==
    IF self.marked_as_safe \/ self.none \/ is_testing THEN "ok"
    ELSE IF forbidden_queries.t = "none" THEN "TypeError"
    ELSE IF \E i \in DOMAIN forbidden_queries.v :
                Forbids(forbidden_queries.v[i], self, idx_key)
         THEN "ForbiddenQueryException"
    ELSE "ok"

\* Queries: dicts over a few keys whose values are scalars, lists, tuples
\* and dicts nested up to MaxNesting levels.
Leaves == {PyScalar(5), PyList(<<5>>), PyTuple(<<5>>)}
RECURSIVE QueryValues(_)
QueryValues(depth) ==
    IF depth = 0 THEN Leaves
    ELSE Leaves \cup {EmptyDict}
         \cup {PyDict([k \in {"$gt"} |-> val]) : val \in QueryValues(depth - 1)}
Queries ==
    {EmptyDict}
    \cup UNION {{PyDict(f) : f \in [keys -> QueryValues(MaxNesting - 1)]} :
                   keys \in (SUBSET {"a", "b"}) \ {{}}}

\* The querysets and the forbidden_queries of the checks.
QueryPool ==
    {EmptyDict,
     PyDict([k \in {"a"} |-> PyScalar(5)]),
     PyDict([k \in {"a"} |-> PyList(<<5>>)]),
     PyDict([k \in {"a"} |-> PyDict([j \in {"$gt"} |-> PyScalar(5)])]),
     PyDict([k \in {"a", "b"} |-> PyScalar(5)])}
Orderings == {"None", "a_asc"}
Limits == {NoneInt, PyInt(0), PyInt(2)}
IdxKeys ==
    {[t |-> "int", v |-> PyInt(n)] : n \in {0, 1, 3}}
    \cup {[t |-> "slice", v |-> stop] : stop \in {NoneInt, PyInt(1), PyInt(2)}}
ForbiddenEntries ==
    [query_shape : {EmptyDict, PyDict([k \in {"a"} |-> PyScalar(1)])},
     orderings : {[t |-> "absent", v |-> <<>>], [t |-> "list", v |-> <<"None">>]},
     max_allowed_limit : {[t |-> "absent", v |-> 0], NoneInt, PyInt(1)}]
ForbiddenLists ==
    {NoForbiddenQueries}
    \cup {PyList(l) : l \in UNION {[1..n -> ForbiddenEntries] : n \in 1..2}}

InitQuery ==
    /\ key_list = <<>>
    /\ ctor = NoCtor
    /\ blob = <<>>
    /\ origin = NoOrigin
    /\ InitCall
    /\ enc = NoEnc
    /\ py = NoPy
    /\ prev = NoPrev
    /\ calls = NoCalls
    /\ clock = 1
    /\ doc = NoDoc
    /\ db = NoDb
    /\ log = NoLog
    /\ forbidden_queries \in ForbiddenLists
    /\ is_testing \in BOOLEAN
    /\ qs \in [marked_as_safe : {FALSE}, none : BOOLEAN, query : QueryPool,
               ordering : Orderings, limit : Limits]
    /\ ~(qs.none /\ is_testing)
    /\ qlast = NoQlast
    /\ InitRandomPk
    /\ InitSoft

otherThanMongo == <<cryptoVars, enc, adapterVars, threadVars, docVars>>
otherThanQueryset == <<otherThanMongo, randomPkVars, softVars>>

\* next(), lines 206-208: the check, then QuerySet.next.
next ==
    /\ qlast' = [op |-> "next", idx_key |-> NoIdxKey,
                 status |-> _check_for_forbidden_queries(qs, NoIdxKey),
                 marked |-> qs.marked_as_safe,
                 shape |-> _get_query_shape(qs.query)]
    /\ UNCHANGED <<forbidden_queries, is_testing, qs, otherThanQueryset>>

\* __getitem__(key), lines 210-212: the check with the key, then
\* QuerySet.__getitem__.
getitem(key) ==
    /\ qlast' = [op |-> "getitem", idx_key |-> key,
                 status |-> _check_for_forbidden_queries(qs, key),
                 marked |-> qs.marked_as_safe,
                 shape |-> _get_query_shape(qs.query)]
    /\ UNCHANGED <<forbidden_queries, is_testing, qs, otherThanQueryset>>

\* mark_as_safe(), lines 214-219.
mark_as_safe ==
    /\ qs' = [qs EXCEPT !.marked_as_safe = TRUE]
    /\ UNCHANGED <<forbidden_queries, is_testing, qlast, otherThanQueryset>>

getitemAny == \E key \in IdxKeys : getitem(key)

NextQuery == next \/ getitemAny \/ mark_as_safe

SpecQuery == InitQuery /\ [][NextQuery]_vars

\* _get_query_shape applied to a query on its own.
InitShape ==
    /\ key_list = <<>>
    /\ ctor = NoCtor
    /\ blob = <<>>
    /\ origin = NoOrigin
    /\ InitCall
    /\ enc = NoEnc
    /\ py = NoPy
    /\ prev = NoPrev
    /\ calls = NoCalls
    /\ clock = 1
    /\ doc = NoDoc
    /\ db = NoDb
    /\ log = NoLog
    /\ forbidden_queries = NoForbiddenQueries
    /\ is_testing = FALSE
    /\ qs \in [marked_as_safe : {FALSE}, none : {FALSE}, query : Queries,
               ordering : {"None"}, limit : {NoneInt}]
    /\ qlast = NoQlast
    /\ InitRandomPk
    /\ InitSoft

GetQueryShape ==
    /\ qlast.op = "none"
    /\ qlast' = [qlast EXCEPT !.op = "_get_query_shape", !.status = "ok",
                              !.shape = _get_query_shape(qs.query)]
    /\ UNCHANGED <<forbidden_queries, is_testing, qs, otherThanQueryset>>

NextShape == GetQueryShape

SpecShape == InitShape /\ [][NextShape]_vars

\* ------------------------------------------------------ RandomPKDocument
\* One instance of a subclass of RandomPKDocument and the ids stored in its
\* collection, named "docs".  An id is a string; urandom draws one of three.
RandomIds == {"docs_1", "docs_2", "docs_3"}
CallerIds == {"mine"}
\* How Document.save ends apart from the duplicate _id of a forced insert:
\* well, with a duplicate key of another unique index, with another
\* OperationError, or with a ValidationError.
Failures == {"none", "dup_other", "OperationError", "ValidationError"}

InitPk ==
    /\ key_list = <<>>
    /\ ctor = NoCtor
    /\ blob = <<>>
    /\ origin = NoOrigin
    /\ InitCall
    /\ enc = NoEnc
    /\ py = NoPy
    /\ prev = NoPrev
    /\ calls = NoCalls
    /\ clock = 1
    /\ doc = NoDoc
    /\ db = NoDb
    /\ log = NoLog
    /\ InitQueryset
    /\ InitSoft
    /\ rdoc = NoRdoc
    /\ coll \in SUBSET {"docs_1", "mine"}
    /\ rcall = NoRcall

otherThanRandomPk == <<otherThanMongo, querysetVars, softVars>>

\* Doc(...) or Doc(id=...): another instance, with or without an id.
NewRandomPk(id) ==
    /\ rcall.pc \in {"idle", "done"}
    /\ rdoc' = [id |-> id]
    /\ rcall' = NoRcall
    /\ UNCHANGED <<coll, otherThanRandomPk>>

\* save(force_insert=...) is entered, line 30.
SaveEnter(force_insert) ==
    /\ rcall.pc \in {"idle", "done"}
    /\ rdoc.id = NoId => RandomIds \ coll # {}
    /\ rcall' = [pc |-> "try", old_id |-> rdoc.id, entry_id |-> rdoc.id,
                 force_insert |-> force_insert, caller_force |-> force_insert,
                 depth |-> 1, tries |-> <<>>, status |-> "none"]
    /\ UNCHANGED <<rdoc, coll, otherThanRandomPk>>

\* Mutant of IdAfterError: the id of the failed attempt stays.
IdKeptAfterError(old_id, id) == id

\* self.id = old_id, line 47.
IdAfterError(old_id, id) == old_id

\* Mutant of IsDuplicateId: every duplicate key error is retried.
IsAnyDuplicate(outcome) == outcome \in {"dup_id", "dup_other"}

\* The message of the error starts with the duplicate key error of the
\* _id index of this collection, line 52.
IsDuplicateId(outcome) == outcome = "dup_id"

\* The try block and the except clause of one save() frame, lines 35-55:
\* an instance without id gets one and a forced insert; an OperationError
\* restores the id and, for a duplicate _id, calls save() again with the
\* same kwargs; anything else leaves the frame.  An instance that keeps
\* colliding recurses until Python's recursion limit.
SaveTry(random, failure) ==
    /\ rcall.pc = "try"
    /\ (rdoc.id = NoId /\ rcall.depth = MaxRetry) => random \notin coll
    /\ LET generated == rdoc.id = NoId
           id == IF generated THEN random ELSE rdoc.id
           force_insert == generated \/ rcall.force_insert
           outcome == IF failure # "none" THEN failure
                      ELSE IF force_insert /\ id \in coll THEN "dup_id"
                      ELSE "ok"
           tried == Append(rcall.tries, [id |-> id, force_insert |-> force_insert,
                                         outcome |-> outcome])
           restored == IdAfterError(rcall.old_id, id)
       IN  IF outcome = "ok"
           THEN /\ rdoc' = [id |-> id]
                /\ coll' = coll \cup {id}
                /\ rcall' = [rcall EXCEPT !.pc = "done", !.status = "ok",
                                          !.tries = tried,
                                          !.force_insert = force_insert]
           ELSE IF outcome = "ValidationError"
           THEN /\ rdoc' = [id |-> id]
                /\ coll' = coll
                /\ rcall' = [rcall EXCEPT !.pc = "done",
                                          !.status = "ValidationError",
                                          !.tries = tried,
                                          !.force_insert = force_insert]
           ELSE /\ rdoc' = [id |-> restored]
                /\ coll' = coll
                /\ rcall' =
                       IF ~IsDuplicateId(outcome)
                       THEN [rcall EXCEPT !.pc = "done",
                                          !.status = "OperationError",
                                          !.tries = tried,
                                          !.force_insert = force_insert]
                       ELSE IF rcall.depth < MaxRetry
                       THEN [rcall EXCEPT !.old_id = restored,
                                          !.depth = @ + 1,
                                          !.tries = tried,
                                          !.force_insert = force_insert]
                       ELSE [rcall EXCEPT !.pc = "done",
                                          !.status = "RuntimeError",
                                          !.tries = tried,
                                          !.force_insert = force_insert]
    /\ UNCHANGED otherThanRandomPk

NewRandomPkAny == \E id \in {NoId} \cup CallerIds \cup {"docs_1"} : NewRandomPk(id)
SaveEnterAny == \E force_insert \in BOOLEAN : SaveEnter(force_insert)
SaveTryAny == \E random \in RandomIds, failure \in Failures : SaveTry(random, failure)

NextPk == NewRandomPkAny \/ SaveEnterAny \/ SaveTryAny

SpecPk == InitPk /\ [][NextPk]_vars

\* ---------------------------------------------------- SoftDeleteDocument
\* One instance of a subclass of SoftDeleteDocument and the document stored
\* for it.  is_deleted is "True", "False" or "None"; a document that is not
\* stored has none ("absent").
InitSoftDelete ==
    /\ key_list = <<>>
    /\ ctor = NoCtor
    /\ blob = <<>>
    /\ origin = NoOrigin
    /\ InitCall
    /\ InitOutside

otherThanSoft == <<otherThanMongo, querysetVars, randomPkVars>>

\* doc.is_deleted = value, through the descriptor of the BooleanField of
\* line 112.  Two things differ between versions of the library: None is
\* kept, or replaced by the field's default, False (none_to_default); and a
\* value equal to the one the instance holds marks the field as changed or
\* not (mark_equal).  A value that differs always marks it.
SoftAssign(value) ==
    \E none_to_default \in BOOLEAN, mark_equal \in BOOLEAN :
        LET held == IF value = "None" /\ none_to_default THEN "False" ELSE value
            marks == sdoc.is_deleted # held \/ mark_equal
        IN  /\ sdoc' = [sdoc EXCEPT !.is_deleted = held,
                                    !.changed = @ \/ marks]
            /\ slog' = [op |-> "assign", arg |-> value, kwargs |-> NoKwargs,
                        status |-> "ok",
                        before |-> sdb, memory |-> sdoc]
            /\ sq' = NoSq
            /\ UNCHANGED <<sdb, _all_objs_queryset, otherThanSoft>>

\* doc.save(): Document.save validates (is_deleted is required, line 112)
\* and stores the instance when it is inserted, the changed field when it
\* is updated.
SoftSave ==
    LET valid == sdoc.is_deleted # "None"
    IN  /\ IF valid
           THEN /\ sdb' = [exists |-> TRUE,
                           is_deleted |-> IF ~sdoc.pk \/ sdoc.changed \/ ~sdb.exists
                                          THEN sdoc.is_deleted
                                          ELSE sdb.is_deleted]
                /\ sdoc' = [sdoc EXCEPT !.pk = TRUE, !.changed = FALSE]
           ELSE UNCHANGED <<sdb, sdoc>>
        /\ slog' = [op |-> "save", arg |-> "absent", kwargs |-> NoKwargs,
                    status |-> IF valid THEN "ok" ELSE "ValidationError",
                    before |-> sdb, memory |-> sdoc]
        /\ sq' = NoSq
        /\ UNCHANGED <<_all_objs_queryset, otherThanSoft>>

\* Mutant of RejectsNone: no value of set__is_deleted is refused.
RejectsNothing(set__is_deleted) == FALSE

\* 'set__is_deleted' in kwargs and kwargs['set__is_deleted'] is None, lines
\* 115 and 120.
RejectsNone(set__is_deleted) == set__is_deleted = "None"

\* kwargs.get('set__is_deleted'), with "absent" where the keyword is not
\* among the arguments.
SetIsDeleted(kwargs) ==
    IF "set__is_deleted" \in DOMAIN kwargs THEN kwargs["set__is_deleted"]
    ELSE "absent"

\* What Document.modify and Document.update make of the stored is_deleted
\* with the keyword arguments that are passed on to them: set__is_deleted
\* stores the value, unset__is_deleted removes the field from the stored
\* document ("absent"), __raw__ with {'$set': {'is_deleted': v}} stores v.
Updated(stored, kwargs) ==
    IF "set__is_deleted" \in DOMAIN kwargs THEN kwargs["set__is_deleted"]
    ELSE IF "unset__is_deleted" \in DOMAIN kwargs THEN "absent"
    ELSE IF "__raw__" \in DOMAIN kwargs THEN kwargs["__raw__"]
    ELSE stored

\* The is_deleted of an instance loaded from the stored document: a field
\* that is not stored gets the default, False (line 112); a stored None is
\* kept or replaced by the default, depending on the version of the
\* library (none_to_default).
Loaded(stored, none_to_default) ==
    IF stored = "absent" \/ (stored = "None" /\ none_to_default) THEN "False"
    ELSE stored

\* modify(**kwargs), lines 114-117: set__is_deleted = None is refused;
\* every other keyword argument is passed on to Document.modify, which
\* updates the stored document and loads the result into the instance.
SoftModify(kwargs) ==
    \E none_to_default \in BOOLEAN :
        LET status == IF RejectsNone(SetIsDeleted(kwargs)) THEN "ValidationError"
                      ELSE IF ~sdoc.pk THEN "InvalidDocumentError"
                      ELSE "ok"
            stored == [exists |-> TRUE,
                       is_deleted |-> Updated(sdb.is_deleted, kwargs)]
        IN  /\ IF status = "ok"
               THEN /\ sdb' = stored
                    /\ sdoc' = [pk |-> TRUE,
                                is_deleted |-> Loaded(stored.is_deleted,
                                                      none_to_default),
                                changed |-> FALSE]
               ELSE UNCHANGED <<sdb, sdoc>>
            /\ slog' = [op |-> "modify", arg |-> SetIsDeleted(kwargs),
                        kwargs |-> kwargs, status |-> status,
                        before |-> sdb, memory |-> sdoc]
            /\ sq' = NoSq
            /\ UNCHANGED <<_all_objs_queryset, otherThanSoft>>

\* update(**kwargs), lines 119-122: set__is_deleted = None is refused;
\* every other keyword argument is passed on to Document.update, which
\* updates the stored document; the instance is left as it is.
SoftUpdate(kwargs) ==
    LET status == IF RejectsNone(SetIsDeleted(kwargs)) THEN "ValidationError"
                  ELSE IF ~sdoc.pk THEN "OperationError"
                  ELSE "ok"
    IN  /\ IF status = "ok"
           THEN sdb' = [exists |-> TRUE,
                        is_deleted |-> Updated(sdb.is_deleted, kwargs)]
           ELSE sdb' = sdb
        /\ slog' = [op |-> "update", arg |-> SetIsDeleted(kwargs),
                    kwargs |-> kwargs, status |-> status,
                    before |-> sdb, memory |-> sdoc]
        /\ sq' = NoSq
        /\ UNCHANGED <<sdoc, _all_objs_queryset, otherThanSoft>>

\* delete(), lines 124-128: only for a saved instance, is_deleted = True in
\* memory and self.modify(set__is_deleted=True).
SoftDelete ==
    /\ IF sdoc.pk
       THEN /\ sdb' = [exists |-> TRUE, is_deleted |-> "True"]
            /\ sdoc' = [pk |-> TRUE, is_deleted |-> "True", changed |-> FALSE]
       ELSE UNCHANGED <<sdb, sdoc>>
    /\ slog' = [op |-> "delete", arg |-> "absent", kwargs |-> NoKwargs,
                status |-> "ok",
                before |-> sdb, memory |-> sdoc]
    /\ sq' = NoSq
    /\ UNCHANGED <<_all_objs_queryset, otherThanSoft>>

\* The queryset behind Doc.all_objects, lines 130-134: one plain QuerySet,
\* made at the first access and kept on the class, so that every access
\* gets the same object, with the cursor it has.  "new" is a cursor that
\* has not been read, "returned" one that has handed out the document,
\* "exhausted" one that has raised StopIteration.
AllObjects == IF _all_objs_queryset = "absent" THEN "new" ELSE _all_objs_queryset

\* The stored document is among the documents a query returns.
\* NotDeletedQuerySet adds is_deleted=False in __call__ (lines 98-102), the
\* way of objects(...), filter, all and get, and in count (lines 104-108);
\* a queryset on which neither has run (Doc.objects iterated, indexed,
\* asked for first() or for next()) has no such filter, which is why count
\* needs its own, and the manager makes a new one at every access.
\* all_objects is a plain QuerySet: its count() runs a command of its own
\* ("all_objects"), its next() reads on from where the cursor of the kept
\* queryset stands ("all_objects_next").
Found(op) ==
    IF op \in {"objects_call", "objects_count"}
    THEN sdb.exists /\ sdb.is_deleted = "False"
    ELSE IF op = "all_objects_next"
    THEN sdb.exists /\ AllObjects = "new"
    ELSE sdb.exists

\* A queryset that raises StopIteration rewinds its cursor or leaves it
\* exhausted, depending on the version of the library (rewinds).
Queried(op) ==
    \E rewinds \in BOOLEAN :
        /\ sq' = [op |-> op, found |-> Found(op),
                  count |-> IF Found(op) THEN 1 ELSE 0,
                  cursor |-> _all_objs_queryset]
        /\ _all_objs_queryset' =
               IF op = "all_objects" THEN AllObjects
               ELSE IF op # "all_objects_next" THEN _all_objs_queryset
               ELSE IF Found(op) THEN "returned"
               ELSE IF rewinds THEN "new"
               ELSE "exhausted"
        /\ UNCHANGED <<sdoc, sdb, slog, otherThanSoft>>

SoftAssignAny == \E value \in {"True", "False", "None"} : SoftAssign(value)
\* The keyword arguments of modify and update: none, or one that names
\* is_deleted: set__is_deleted = True, False or None, unset__is_deleted = 1,
\* or __raw__ = {'$set': {'is_deleted': None}}.
SoftKwargs ==
    {NoKwargs}
        \cup {[k \in {"set__is_deleted"} |-> v] : v \in {"True", "False", "None"}}
        \cup {[k \in {"unset__is_deleted"} |-> "1"],
              [k \in {"__raw__"} |-> "None"]}
SoftModifyAny == \E kwargs \in SoftKwargs : SoftModify(kwargs)
SoftUpdateAny == \E kwargs \in SoftKwargs : SoftUpdate(kwargs)
QueriedAny ==
    \E op \in {"objects_call", "objects_count", "objects_bare", "all_objects",
               "all_objects_next"} :
        Queried(op)

NextSoft ==
    SoftAssignAny \/ SoftSave \/ SoftModifyAny \/ SoftUpdateAny \/ SoftDelete
        \/ QueriedAny

SpecSoft == InitSoftDelete /\ [][NextSoft]_vars

\* ------------------------------------------------- EncryptedStringField
\* unicode.encode('utf-8') of one code point.
Utf8EncodePoint(c) ==
    IF c < 128 THEN <<c>>
    ELSE IF c < 2048 THEN <<192 + (c \div 64), 128 + (c % 64)>>
    ELSE IF c < 65536
    THEN <<224 + (c \div 4096), 128 + ((c \div 64) % 64), 128 + (c % 64)>>
    ELSE <<240 + (c \div 262144), 128 + ((c \div 4096) % 64),
           128 + ((c \div 64) % 64), 128 + (c % 64)>>

\* The two halves of a surrogate pair, and the code point the pair stands
\* for.
HighSurrogates == 55296..56319
LowSurrogates == 56320..57343
PairPoint(high, low) == 65536 + (high - 55296) * 1024 + (low - 56320)

\* value.encode('utf-8'): a high surrogate followed by a low one is encoded
\* as the one code point the pair stands for (4 bytes); a surrogate on its
\* own is encoded like any other code point (3 bytes).
RECURSIVE Utf8Encode(_)
Utf8Encode(text) ==
    IF text = <<>> THEN <<>>
    ELSE IF /\ Len(text) >= 2
            /\ text[1] \in HighSurrogates
            /\ text[2] \in LowSurrogates
    THEN Utf8EncodePoint(PairPoint(text[1], text[2]))
             \o Utf8Encode(SubSeq(text, 3, Len(text)))
    ELSE Utf8EncodePoint(Head(text)) \o Utf8Encode(Tail(text))

\* bytes.decode('utf-8') from position i on: the code points, or ok = FALSE
\* where Python raises UnicodeDecodeError.
RECURSIVE Utf8DecodeFrom(_, _)
Utf8DecodeFrom(b, i) ==
    IF i > Len(b) THEN [ok |-> TRUE, v |-> <<>>]
    ELSE LET lead == b[i]
             n == IF lead < 128 THEN 1
                  ELSE IF lead \in 194..223 THEN 2
                  ELSE IF lead \in 224..239 THEN 3
                  ELSE IF lead \in 240..244 THEN 4
                  ELSE 0
             Cont(j) == (i + j <= Len(b)) /\ (b[i + j] \in 128..191)
             cp == CASE n = 1 -> lead
                     [] n = 2 -> (lead - 192) * 64 + (b[i + 1] - 128)
                     [] n = 3 -> (lead - 224) * 4096 + (b[i + 1] - 128) * 64
                                     + (b[i + 2] - 128)
                     [] OTHER -> (lead - 240) * 262144 + (b[i + 1] - 128) * 4096
                                     + (b[i + 2] - 128) * 64 + (b[i + 3] - 128)
             valid == /\ n > 0
                      /\ \A j \in 1..(n - 1) : Cont(j)
                      /\ (n = 3) => (cp >= 2048)
                      /\ (n = 4) => (cp \in 65536..1114111)
         IN  IF ~valid THEN [ok |-> FALSE, v |-> <<>>]
             ELSE LET rest == Utf8DecodeFrom(b, i + n)
                  IN  IF rest.ok THEN [ok |-> TRUE, v |-> <<cp>> \o rest.v]
                      ELSE rest

\* Mutant of Utf8Decode: every byte is taken as one code point.
Utf8DecodeLatin1(b) == [ok |-> TRUE, v |-> b]

Utf8Decode(b) == Utf8DecodeFrom(b, 1)

\* How a build whose unicode strings are made of 16-bit units holds a text:
\* a code point above 65535 is the surrogate pair that stands for it.
RECURSIVE AsUnits(_)
AsUnits(text) ==
    IF text = <<>> THEN <<>>
    ELSE IF Head(text) >= 65536
    THEN <<55296 + ((Head(text) - 65536) \div 1024),
           56320 + ((Head(text) - 65536) % 1024)>> \o AsUnits(Tail(text))
    ELSE <<Head(text)>> \o AsUnits(Tail(text))

\* Text values: e acute (2 bytes in UTF-8), the euro sign (3 bytes), 'h'
\* (1 byte), and the surrogate pair of U+10000 (4 bytes).
TextPoint(i) == CASE i = 1 -> 233 [] i = 2 -> 8364 [] OTHER -> 104
Texts == {[i \in 1..n |-> TextPoint(i)] : n \in {0, MaxLen}}
             \cup {<<104>>, <<55296, 56320>>}
\* What a document hands to to_mongo: None, text or a byte string.
FieldValues == {PyNone, PyBytes(<<>>), PyBytes(<<104>>)} \cup {PyText(t) : t \in Texts}

\* Keys of a field, as aes_generate_key returns them: no half in common.
FieldKeys == {MkKey(1, 1), MkKey(2, 2)}
\* key_or_list: one byte string, or a list of byte strings (the empty one
\* included), of the right size or not.
CtorArgs ==
    {PyBytes(k) : k \in FieldKeys \cup BadKeys}
        \cup {PyList(l) : l \in UNION {[1..n -> FieldKeys \cup BadKeys] : n \in 0..MaxRing}}

\* No field has been constructed yet.
InitField ==
    /\ key_list = <<>>
    /\ ctor = NoCtor
    /\ blob = <<>>
    /\ origin = NoOrigin
    /\ InitCall
    /\ InitOutside

\* Mutant of Construct: only the first key of the list is checked.
ConstructFirstKeyOnly(key_or_list) ==
    /\ ctor.status = "none"
    /\ LET assigned == IF key_or_list.t = "list" THEN key_or_list.v
                        ELSE <<key_or_list.v>>
       IN  /\ key_list' = assigned
           /\ ctor' = [status |-> IF Len(assigned) > 0
                                       /\ Len(assigned[1]) = KEY_LENGTH
                                   THEN "ok" ELSE "AssertionError",
                        arg    |-> key_or_list]
    /\ UNCHANGED <<blob, origin, callVars, enc, py, prev, outsideField>>

\* EncryptedStringField.__init__(key_or_list), lines 36-42: key_list is the
\* list given, or the one-element list of the key given; then the
\* assertions on its length and on the size of every key.
Construct(key_or_list) ==
    /\ ctor.status = "none"
    /\ LET assigned == IF key_or_list.t = "list" THEN key_or_list.v
                        ELSE <<key_or_list.v>>
       IN  /\ key_list' = assigned
           /\ ctor' = [status |-> IF Len(assigned) > 0
                                       /\ \A i \in 1..Len(assigned) :
                                              Len(assigned[i]) = KEY_LENGTH
                                   THEN "ok" ELSE "AssertionError",
                        arg    |-> key_or_list]
    /\ UNCHANGED <<blob, origin, callVars, enc, py, prev, outsideField>>

\* A value stored before the field got its present key list: written by
\* aes_encrypt under a key that is now first, retired or gone.
OldWrite ==
    /\ ctor.status = "ok"
    /\ \E key \in FieldKeys, text \in Texts \ {<<>>}, iv \in IVs :
           Encrypt(key, Utf8Encode(text), iv)

\* Mutant of ToMongo: the value is encrypted under the key that decrypted it
\* last (the first key when none did).
ToMongoUnderReadKey(value, iv) ==
    /\ ctor.status = "ok"
    /\ pc = "idle"
    /\ LET data == IF value.t = "text" THEN PyBytes(Utf8Encode(value.v)) ELSE value
           key  == key_list[IF py.key = 0 THEN 1 ELSE py.key]
       IN  IF Truthy(data)
           THEN /\ blob' = aes_encrypt(key, data.v, iv)
                /\ origin' = [kind |-> "v1", key |-> key, iv |-> iv,
                              plain |-> data.v, flip |-> <<>>]
                /\ enc' = [status |-> "ok", urandom |-> 1, key |-> key]
                /\ py' = [op |-> "to_mongo", arg |-> value, status |-> "ok",
                          value |-> PyBytes(blob'), encrypts |-> 1, decrypts |-> 0,
                          saved |-> value, key |-> py.key]
           ELSE /\ blob' = <<>>
                /\ origin' = [NoOrigin EXCEPT !.kind = "absent"]
                /\ enc' = enc
                /\ py' = [op |-> "to_mongo", arg |-> value, status |-> "ok",
                          value |-> PyNone, encrypts |-> 0, decrypts |-> 0,
                          saved |-> value, key |-> py.key]
    /\ prev' = [blob |-> blob, origin |-> origin, enc |-> enc]
    /\ UNCHANGED <<key_list, ctor, callVars, outsideField>>

\* to_mongo(value), lines 74-76, and the store of what it returns: text is
\* encoded; a value that is not empty is encrypted by _encrypt (line 59)
\* under key_list[0] with a fresh IV (iv is what os.urandom returns) and
\* stored; for None and the empty values to_mongo returns None and the
\* document keeps nothing for the field.
ToMongo(value, iv) ==
    /\ ctor.status = "ok"
    /\ pc = "idle"
    /\ LET data == IF value.t = "text" THEN PyBytes(Utf8Encode(value.v)) ELSE value
           key  == key_list[1]
       IN  IF Truthy(data)
           THEN /\ blob' = aes_encrypt(key, data.v, iv)
                /\ origin' = [kind |-> "v1", key |-> key, iv |-> iv,
                              plain |-> data.v, flip |-> <<>>]
                /\ enc' = [status |-> "ok", urandom |-> 1, key |-> key]
                /\ py' = [op |-> "to_mongo", arg |-> value, status |-> "ok",
                          value |-> PyBytes(blob'), encrypts |-> 1, decrypts |-> 0,
                          saved |-> value, key |-> py.key]
           ELSE /\ blob' = <<>>
                /\ origin' = [NoOrigin EXCEPT !.kind = "absent"]
                /\ enc' = enc
                /\ py' = [op |-> "to_mongo", arg |-> value, status |-> "ok",
                          value |-> PyNone, encrypts |-> 0, decrypts |-> 0,
                          saved |-> value, key |-> py.key]
    /\ prev' = [blob |-> blob, origin |-> origin, enc |-> enc]
    /\ UNCHANGED <<key_list, ctor, callVars, outsideField>>

\* Mutant of ToPythonEmpty: the empty value is handed to _decrypt, whose
\* aes_decrypt call fails at data[0].
ToPythonEmptyDecrypts(value) ==
    /\ ctor.status = "ok"
    /\ pc = "idle"
    /\ blob = <<>>
    /\ ~Truthy(value)
    /\ py' = [op |-> "to_python", arg |-> value, status |-> "IndexError",
              value |-> PyNone, encrypts |-> 0, decrypts |-> 1,
              saved |-> py.saved, key |-> 0]
    /\ UNCHANGED <<cryptoVars, enc, ctor, prev, outsideField>>

\* to_python(value), line 71, of a stored value that is None or empty:
\* "value and ..." stops at value, so None is returned and _decrypt is not
\* called.
ToPythonEmpty(value) ==
    /\ ctor.status = "ok"
    /\ pc = "idle"
    /\ blob = <<>>
    /\ ~Truthy(value)
    /\ py' = [op |-> "to_python", arg |-> value, status |-> "ok",
              value |-> PyNone, encrypts |-> 0, decrypts |-> 0,
              saved |-> py.saved, key |-> 0]
    /\ UNCHANGED <<cryptoVars, enc, ctor, prev, outsideField>>

\* to_python(value), line 71, of a stored envelope, once _decrypt has ended:
\* the plaintext is decoded, and an empty text gives None ("... or None");
\* an exception of _decrypt or of decode leaves to_python as it is.  The
\* decoded text is a sequence of code points on a build with 32-bit
\* unicode strings (wide) and a sequence of 16-bit units on the other.
ToPythonReturn ==
    /\ ctor.status = "ok"
    /\ pc \in {"returned", "raised"}
    /\ blob # <<>>
    /\ \E wide \in BOOLEAN :
       LET decoded == Utf8Decode(result.value)
           status  == IF pc = "raised" THEN result.status
                      ELSE IF decoded.ok THEN "ok" ELSE "UnicodeDecodeError"
           text    == IF wide THEN decoded.v ELSE AsUnits(decoded.v)
           value   == IF status = "ok" /\ decoded.v # <<>>
                      THEN PyText(text) ELSE PyNone
       IN  py' = [op |-> "to_python", arg |-> PyBytes(blob), status |-> status,
                  value |-> value, encrypts |-> 0,
                  decrypts |-> IF pc = "raised" /\ result.status # "AuthenticationError"
                               THEN Len(attempts) + 1 ELSE Len(attempts),
                  saved |-> py.saved,
                  key |-> IF pc = "returned" THEN idx ELSE 0]
    /\ pc' = "idle"
    /\ idx' = 0
    /\ parsed' = NoParse
    /\ attempts' = <<>>
    /\ hmac_runs' = 0
    /\ ctr_runs' = 0
    /\ result' = NoResult
    /\ UNCHANGED <<key_list, blob, origin, enc, ctor, prev, outsideField>>

ConstructAny == \E key_or_list \in CtorArgs : Construct(key_or_list)
ToMongoAny == \E value \in FieldValues, iv \in IVs : ToMongo(value, iv)
ToPythonEmptyAny == \E value \in {PyNone, PyBytes(<<>>)} : ToPythonEmpty(value)

NextField ==
    \/ ConstructAny
    \/ OldWrite
    \/ ToMongoAny
    \/ ToPythonEmptyAny
    \/ ToPythonReturn
    \/ Decrypt

SpecField == InitField /\ [][NextField]_vars

\* --------------------------------------------------------------- claims
\* The key of the aes_decrypt call in progress, or of the one that returned.
CallKey == key_list[idx]
Intact == origin.flip = <<>>

\* C1: round trip.  An envelope aes_encrypt(k, p) wrote, read by aes_decrypt
\* with the same key k, never fails authentication and returns exactly p,
\* for every IV drawn and every p, the empty one included.
C1_RoundTrip ==
    (origin.kind = "v1" /\ Intact) =>
        /\ \A i \in 1..Len(attempts) :
               key_list[attempts[i].key] = origin.key => attempts[i].status = "ok"
        /\ (pc \in {"returned", "raised"} /\ idx \in 1..Len(key_list)
                /\ CallKey = origin.key)
               => result = [status |-> "ok", value |-> origin.plain]

C1_Witness ==
    /\ pc = "returned"
    /\ origin.kind = "v1"
    /\ CallKey = origin.key
    /\ origin.plain = LongPlain
    /\ origin.iv = IvB
    /\ result.value = LongPlain

\* C2: tamper detection.  After any single bit of an envelope written by
\* aes_encrypt has been changed, aes_decrypt with the writing key ends in
\* AuthenticationError and returns no plaintext.
C2_TamperDetected ==
    (origin.kind = "v1" /\ ~Intact /\ pc \in {"returned", "raised"})
        => (pc = "raised" /\ result.status = "AuthenticationError")

\* The part of C2 the code keeps: a bit changed after the marker byte (in
\* the IV, the payload or the tag) is always detected.
TamperBeyondMarkerDetected ==
    (origin.kind = "v1" /\ ~Intact /\ origin.flip[1] > 1
            /\ pc \in {"returned", "raised"})
        => (pc = "raised" /\ result.status = "AuthenticationError")

\* C3: fallback to Legacy-B.  An envelope in the intermediate format ("v2",
\* 16-byte IV, cipher, 32-byte tag), read with the key that wrote it,
\* decrypts to its original plaintext.
C3_LegacyBFallback ==
    (origin.kind = "v2" /\ key_list = <<origin.key>>
            /\ pc \in {"returned", "raised"})
        => result = [status |-> "ok", value |-> origin.plain]

\* C4: Legacy-A compatibility.  The envelope 0 + v + CTR(cipher key, last 16
\* bytes of v, p) + HMAC(MAC key, v + cipher) is accepted by aes_decrypt
\* with the writing key and yields p, for every 32-byte IV field v.
C4_LegacyA ==
    origin.kind = "v0" =>
        /\ \A i \in 1..Len(attempts) :
               key_list[attempts[i].key] = origin.key => attempts[i].status = "ok"
        /\ (pc \in {"verify", "ctr", "returned"} /\ CallKey = origin.key)
               => (parsed.iv = origin.iv /\ Len(parsed.iv) = V0_IV_SIZE)
        /\ (pc \in {"returned", "raised"} /\ idx \in 1..Len(key_list)
                /\ CallKey = origin.key)
               => result = [status |-> "ok", value |-> origin.plain]

C4_Witness ==
    /\ pc = "returned"
    /\ origin.kind = "v0"
    /\ CallKey = origin.key
    /\ origin.iv = IvB \o IvA
    /\ origin.plain = LongPlain
    /\ result.value = LongPlain

\* The signed region and the tag of the stored envelope, whatever its
\* version: everything between the marker byte and the trailing 32 bytes.
SignedRegion == SubSeq(blob, 2, Len(blob) - HMAC_DIGEST_SIZE)
StoredTag == TakeLast(blob, HMAC_DIGEST_SIZE)
TagValid(key) ==
    /\ Len(blob) > HMAC_DIGEST_SIZE
    /\ HmacDigest(Drop(key, AES_KEY_SIZE), SignedRegion) = StoredTag

\* C5: authentication before use.  The counter-mode decryption is reached,
\* and a plaintext returned, only when the HMAC recomputed over (stored IV
\* field + cipher) under the candidate key's MAC half equals the trailing
\* 32-byte tag; an attempt whose tag differs ends in AuthenticationError
\* with no counter-mode decryption run.
C5_AuthBeforeUse ==
    /\ (pc \in {"ctr", "returned"}) => TagValid(CallKey)
    /\ \A i \in 1..Len(attempts) :
           attempts[i].status = "ok"
               => (i = Len(attempts) /\ pc = "returned" /\ attempts[i].key = idx)
    /\ ctr_runs = (IF pc = "returned" THEN 1 ELSE 0)
    /\ hmac_runs = Len(attempts) + (IF pc = "ctr" THEN 1 ELSE 0)
    /\ result.status = "ok" <=> pc = "returned"
    /\ (pc = "raised" /\ result.status = "AuthenticationError") => ctr_runs = 0

C5_Witness ==
    /\ pc = "raised"
    /\ origin.kind = "v1"
    /\ ~Intact
    /\ origin.flip[1] > 1 + IV_SIZE
    /\ origin.flip[1] <= 1 + IV_SIZE + Len(origin.plain)
    /\ result.status = "AuthenticationError"
    /\ hmac_runs = 1
    /\ ctr_runs = 0

MacHalfOf(key) == Drop(key, AES_KEY_SIZE)
AesHalfOf(key) == Take(key, AES_KEY_SIZE)

\* C6: wrong-key data.  aes_decrypt of an envelope aes_encrypt(k, p) with
\* any key other than k raises AuthenticationError.
C6_WrongKeyRejected ==
    (origin.kind = "v1" /\ Intact) =>
        \A i \in 1..Len(attempts) :
            key_list[attempts[i].key] # origin.key
                => attempts[i].status = "AuthenticationError"

\* C6 as amended: aes_decrypt of an envelope aes_encrypt(k, p) with a key
\* whose MAC half differs from that of k raises AuthenticationError and
\* returns nothing; a key that shares the MAC half of k passes the tag
\* check whatever its cipher half.
C6_WrongMacKeyRejected ==
    (origin.kind = "v1" /\ Intact) =>
        /\ \A i \in 1..Len(attempts) :
               IF MacHalfOf(key_list[attempts[i].key]) # MacHalfOf(origin.key)
               THEN attempts[i].status = "AuthenticationError"
               ELSE attempts[i].status = "ok"
        /\ (pc \in {"ctr", "returned"})
               => MacHalfOf(CallKey) = MacHalfOf(origin.key)

C6_Witness ==
    /\ pc = "raised"
    /\ origin.kind = "v1"
    /\ Intact
    /\ Len(key_list) = 1
    /\ MacHalfOf(key_list[1]) # MacHalfOf(origin.key)
    /\ AesHalfOf(key_list[1]) = AesHalfOf(origin.key)
    /\ attempts = <<[key |-> 1, status |-> "AuthenticationError"]>>
    /\ result.status = "AuthenticationError"

\* C7: aes_encrypt always emits the current format: marker byte 1, the
\* 16-byte IV, a cipher as long as the plaintext that is the counter-mode
\* output under the first 32 key bytes and that IV, and the HMAC under the
\* last 32 key bytes over IV + cipher; len(p) + 49 bytes in all, never a
\* version 0 or "v2" envelope.
C7_CurrentFormat ==
    (origin.kind = "v1" /\ Intact /\ pc = "idle") =>
        LET cipher == AesCtr(AesHalfOf(origin.key), origin.iv, origin.plain)
            tag    == HmacDigest(MacHalfOf(origin.key), origin.iv \o cipher)
        IN  /\ Len(origin.iv) = IV_SIZE
            /\ Len(cipher) = Len(origin.plain)
            /\ Len(tag) = HMAC_DIGEST_SIZE
            /\ blob = <<1>> \o origin.iv \o cipher \o tag
            /\ Len(blob) = Len(origin.plain) + 49
            /\ Take(blob, 1) # V0_MARKER
            /\ Take(blob, 2) # V2_MARKER

C7_Witness ==
    /\ pc = "idle"
    /\ origin.kind = "v1"
    /\ Intact
    /\ origin.plain = LongPlain
    /\ Len(blob) = Len(LongPlain) + 49
    /\ blob[1] = 1
    /\ SubSeq(blob, 2, 1 + IV_SIZE) = origin.iv

\* C8: key rotation.  An envelope written under k1 and read through the key
\* list [k2, k1] is returned as its plaintext; read through [k2] alone it
\* ends in AuthenticationError (k1 and k2 having different MAC halves).
C8_KeyRotation ==
    (origin.kind = "v1" /\ Intact /\ pc \in {"returned", "raised"}
            /\ MacHalfOf(key_list[1]) # MacHalfOf(origin.key)) =>
        /\ (Len(key_list) = 2 /\ key_list[2] = origin.key)
               => (pc = "returned"
                     /\ result = [status |-> "ok", value |-> origin.plain])
        /\ Len(key_list) = 1
               => (pc = "raised" /\ result.status = "AuthenticationError")

C8_Witness ==
    /\ pc = "returned"
    /\ origin.kind = "v1"
    /\ Len(key_list) = 2
    /\ key_list[2] = origin.key
    /\ MacHalfOf(key_list[1]) # MacHalfOf(origin.key)
    /\ attempts = <<[key |-> 1, status |-> "AuthenticationError"],
                    [key |-> 2, status |-> "ok"]>>
    /\ result.value = origin.plain
    /\ origin.plain # <<>>

\* C9: ring order.  The keys are tried strictly in list order, one attempt
\* per key; the call returns the plaintext of the first key whose tag check
\* passes, no later key is tried, and a key is tried only after every
\* earlier key ended in AuthenticationError.
C9_RingOrder ==
    /\ \A i \in 1..Len(attempts) :
           /\ attempts[i].key = i
           /\ i < Len(attempts) => attempts[i].status = "AuthenticationError"
    /\ Len(attempts) <= Len(key_list)
    /\ (pc \in {"loop", "verify", "ctr"}) => idx = Len(attempts) + 1
    /\ (pc \in {"verify", "ctr"}) =>
           \A i \in 1..Len(attempts) : attempts[i].status = "AuthenticationError"
    /\ pc = "returned" =>
           /\ idx = Len(attempts)
           /\ attempts[idx].status = "ok"
           /\ TagValid(key_list[idx])
           /\ \A j \in 1..(idx - 1) : ~TagValid(key_list[j])
           /\ result.value = DecryptCipher(key_list[idx], parsed.data,
                                           parsed.iv, parsed.version)

C9_Witness ==
    /\ pc = "returned"
    /\ origin.kind = "v1"
    /\ Len(key_list) = 2
    /\ idx = 1
    /\ key_list[2] = origin.key
    /\ key_list[1] # origin.key
    /\ attempts = <<[key |-> 1, status |-> "ok"]>>
    /\ hmac_runs = 1

\* C10: an exhausted ring is terminal.  When no key of the list
\* authenticates the stored envelope, the call ends by raising
\* AuthenticationError after exactly len(key_list) attempts, one per key; it
\* returns no value and tries no key twice.
C10_ExhaustedRing ==
    /\ (pc = "raised" /\ result.status = "AuthenticationError") =>
           /\ Len(attempts) = Len(key_list)
           /\ hmac_runs = Len(key_list)
           /\ ctr_runs = 0
           /\ result.value = <<>>
           /\ \A i \in 1..Len(attempts) :
                  /\ attempts[i].key = i
                  /\ attempts[i].status = "AuthenticationError"
           /\ \A i \in 1..Len(key_list) : ~TagValid(key_list[i])
    /\ pc = "returned" => \E i \in 1..Len(key_list) : TagValid(key_list[i])
    /\ hmac_runs <= Len(key_list)
    /\ idx <= Len(key_list) + 1

C10_Witness ==
    /\ pc = "raised"
    /\ Len(key_list) = 2
    /\ key_list[1] # key_list[2]
    /\ origin.kind = "v1"
    /\ result.status = "AuthenticationError"
    /\ Len(attempts) = 2
    /\ hmac_runs = 2

\* The least length of a well-formed envelope of the version its leading
\* byte announces: marker, IV field and tag (65 bytes for version 0, 49
\* for version 1).
MinEnvelope(data) ==
    IF Take(data, 1) = V0_MARKER
    THEN 1 + V0_IV_SIZE + HMAC_DIGEST_SIZE
    ELSE 1 + IV_SIZE + HMAC_DIGEST_SIZE

\* C11: malformed input.  aes_decrypt of an envelope shorter than marker +
\* IV field + tag for its detected version, the empty byte string included,
\* fails with a MalformedCiphertext error, which is not AuthenticationError,
\* before any MAC is computed.
C11_MalformedRejected ==
    (pc \in {"returned", "raised"} /\ Len(key_list[1]) = KEY_LENGTH
            /\ Len(blob) < MinEnvelope(blob))
        => (pc = "raised" /\ result.status = "MalformedCiphertext"
              /\ hmac_runs = 0)

\* What the code does with such an envelope: the empty one ends in an
\* IndexError at data[0]; every other one has its signature computed over
\* the slices that are left and ends in AuthenticationError.
ShortEnvelopeOutcome ==
    (pc \in {"returned", "raised"} /\ Len(key_list[1]) = KEY_LENGTH
            /\ Len(blob) < MinEnvelope(blob))
        => IF blob = <<>>
           THEN result.status = "IndexError" /\ hmac_runs = 0
           ELSE result.status = "AuthenticationError" /\ hmac_runs = 1

\* C12: key-size validation.  aes_encrypt and aes_decrypt given a key that
\* is not exactly 64 bytes long fail with the same error (the assertion
\* 'invalid key size') as their first step: no IV has been drawn, nothing has
\* been parsed, no MAC computed and no cipher run; with a 64-byte key the
\* assertion passes.
C12_KeySizeValidated ==
    /\ enc.status # "none" =>
           /\ enc.status = (IF Len(enc.key) = KEY_LENGTH THEN "ok" ELSE "AssertionError")
           /\ enc.urandom = (IF Len(enc.key) = KEY_LENGTH THEN 1 ELSE 0)
    /\ origin.kind # "none" => Len(origin.key) = KEY_LENGTH
    /\ (Len(key_list[1]) # KEY_LENGTH /\ pc \notin {"idle", "loop"}) =>
           /\ pc = "raised"
           /\ result = [status |-> "AssertionError", value |-> <<>>]
           /\ parsed = NoParse
           /\ attempts = <<>>
           /\ hmac_runs = 0
           /\ ctr_runs = 0
    /\ (Len(key_list[1]) = KEY_LENGTH) => result.status # "AssertionError"

C12_Witness ==
    /\ pc = "raised"
    /\ Len(key_list[1]) = KEY_LENGTH - 1
    /\ result.status = "AssertionError"
    /\ origin.kind = "v0"
    /\ enc.status = "AssertionError"
    /\ Len(enc.key) = KEY_LENGTH + 1
    /\ enc.urandom = 0

\* C13: adapter construction.  EncryptedStringField takes one key or an
\* ordered list of keys; construction fails when the list is empty or when
\* any key of it is not exactly 64 bytes long, so a constructed field has a
\* non-empty key_list of 64-byte keys, in the order the caller gave.
C13_Construction ==
    ctor.status # "none" =>
        LET given == IF ctor.arg.t = "list" THEN ctor.arg.v ELSE <<ctor.arg.v>>
            acceptable == /\ given # <<>>
                          /\ \A i \in 1..Len(given) : Len(given[i]) = KEY_LENGTH
        IN  /\ ctor.status = (IF acceptable THEN "ok" ELSE "AssertionError")
            /\ ctor.status = "ok" =>
                   /\ key_list = given
                   /\ Len(key_list) > 0
                   /\ \A i \in 1..Len(key_list) : Len(key_list[i]) = KEY_LENGTH
            /\ ctor.status = "AssertionError" =>
                   (origin.kind = "none" /\ py.op = "none" /\ pc = "idle")

C13_Witness ==
    /\ ctor.status = "AssertionError"
    /\ ctor.arg.t = "list"
    /\ Len(ctor.arg.v) = 2
    /\ Len(ctor.arg.v[1]) = KEY_LENGTH
    /\ Len(ctor.arg.v[2]) = KEY_LENGTH + 1

\* C14: encryption key choice.  to_mongo always encrypts under the first key
\* of key_list, whatever the length of the list and whichever key decrypted
\* the value before: a value read under a retired key and saved again is
\* stored as an envelope of the first key.
C14_EncryptUnderFirstKey ==
    (ctor.status = "ok" /\ py.op = "to_mongo" /\ py.value # PyNone /\ pc = "idle") =>
        LET data == IF py.arg.t = "text" THEN Utf8Encode(py.arg.v) ELSE py.arg.v
        IN  /\ blob = aes_encrypt(key_list[1], data, SubSeq(blob, 2, 1 + IV_SIZE))
            /\ py.value = PyBytes(blob)
            /\ enc.key = key_list[1]
            /\ origin.key = key_list[1]

C14_Witness ==
    /\ py.op = "to_mongo"
    /\ py.key = 2
    /\ Len(key_list) = 2
    /\ MacHalfOf(key_list[1]) # MacHalfOf(key_list[2])
    /\ prev.origin.kind = "v1"
    /\ prev.origin.key = key_list[2]
    /\ prev.origin.plain = origin.plain
    /\ origin.kind = "v1"
    /\ origin.key = key_list[1]

\* C15: empty-value convention.  to_mongo of None, of the empty text and of
\* the empty byte string returns None without calling aes_encrypt, and the
\* document then holds no ciphertext for the field; to_python of an absent
\* or empty stored value returns None without calling aes_decrypt.
C15_EmptyValue ==
    /\ (py.op = "to_mongo" /\ ~Truthy(py.arg)) =>
           /\ py.status = "ok"
           /\ py.value = PyNone
           /\ py.encrypts = 0
           /\ enc = prev.enc
           /\ blob = <<>>
           /\ origin.kind = "absent"
    /\ (py.op = "to_mongo" /\ Truthy(py.arg)) =>
           (py.encrypts = 1 /\ py.value.t = "bytes" /\ blob # <<>>)
    /\ (py.op = "to_python" /\ ~Truthy(py.arg)) =>
           /\ py.status = "ok"
           /\ py.value = PyNone
           /\ py.decrypts = 0
    /\ (py.op = "to_python" /\ Truthy(py.arg)) => py.decrypts > 0

C15_Witness ==
    /\ py.op = "to_python"
    /\ py.arg = PyNone
    /\ py.value = PyNone
    /\ py.saved = PyText(<<>>)
    /\ prev.origin.kind = "v1"
    /\ prev.enc.status = "ok"
    /\ origin.kind = "absent"
    /\ blob = <<>>

\* C16: adapter round trip.  For every non-empty text v and a field with a
\* fixed key list, to_python of what to_mongo(v) stored returns v, after any
\* sequence of saves and reloads: the reload decrypts the envelope of the
\* latest save, under the first key.
C16_AdapterRoundTrip ==
    (py.op = "to_python" /\ py.saved.t = "text" /\ py.saved.v # <<>>) =>
        /\ py.arg = PyBytes(blob)
        /\ py.status = "ok"
        /\ py.value = py.saved
        /\ py.key = 1
        /\ py.decrypts = 1

\* The text holds a high surrogate followed by a low one.
HasSurrogatePair(text) ==
    \E i \in 1..(Len(text) - 1) :
        text[i] \in HighSurrogates /\ text[i + 1] \in LowSurrogates

\* C16, as the code has it: the round trip returns v for every non-empty
\* text v that holds no surrogate pair.  A surrogate pair is encoded as the
\* code point it stands for, so what comes back for it is that code point:
\* the same text as v where strings are made of 16-bit units, a shorter
\* text than v where they are made of code points.
C16_RoundTripUpToPairs ==
    (py.op = "to_python" /\ py.saved.t = "text" /\ py.saved.v # <<>>) =>
        /\ py.arg = PyBytes(blob)
        /\ py.status = "ok"
        /\ py.value.t = "text"
        /\ AsUnits(py.value.v) = AsUnits(py.saved.v)
        /\ ~HasSurrogatePair(py.saved.v) => py.value = py.saved
        /\ py.key = 1
        /\ py.decrypts = 1

\* A surrogate pair came back as one code point.
C16_PairJoined ==
    /\ py.op = "to_python"
    /\ py.saved = PyText(<<55296, 56320>>)
    /\ py.value = PyText(<<65536>>)

C16_Witness ==
    /\ py.op = "to_python"
    /\ py.saved = PyText(<<233, 8364>>)
    /\ py.value = PyText(<<233, 8364>>)
    /\ Len(key_list) = 2
    /\ prev.origin.kind = "v1"
    /\ prev.origin.key = key_list[1]
    /\ prev.origin.plain # origin.plain

\* C17: fresh IV per encryption.  Two aes_encrypt calls with the same key
\* and the same plaintext that draw distinct IVs return different
\* envelopes, and aes_decrypt returns the plaintext for both; so a value
\* saved twice through the adapter is stored as two different envelopes
\* (the IVs drawn being distinct).
C17_FreshIv ==
    (pc = "idle" /\ origin.kind = "v1" /\ prev.origin.kind = "v1"
            /\ prev.origin.key = origin.key
            /\ prev.origin.plain = origin.plain
            /\ prev.origin.iv # origin.iv) =>
        /\ blob # prev.blob
        /\ aes_decrypt(origin.key, blob) = [status |-> "ok", value |-> origin.plain]
        /\ aes_decrypt(origin.key, prev.blob) = [status |-> "ok", value |-> origin.plain]

C17_Witness ==
    /\ pc = "idle"
    /\ py.op = "to_mongo"
    /\ py.saved = PyText(<<233, 8364>>)
    /\ origin.kind = "v1"
    /\ prev.origin.kind = "v1"
    /\ prev.origin.key = key_list[1]
    /\ origin.key = key_list[1]
    /\ prev.origin.plain = origin.plain
    /\ prev.origin.iv # origin.iv
    /\ blob # prev.blob

\* C18: version sniff.  aes_decrypt classifies an envelope from its leading
\* byte alone: version 0 (32-byte IV field) when it is 0, version 1 (16-byte
\* IV field) when it is 1, with no version given by the caller; an envelope
\* whose leading byte is neither 0 nor 1 is not accepted as a version 1
\* envelope.
C18_VersionSniff ==
    /\ (pc \in {"verify", "ctr", "returned"}) =>
           /\ blob[1] = 0 =>
                  /\ parsed.version = V0_MARKER
                  /\ parsed.iv = SubSeq(blob, 2, Min(1 + V0_IV_SIZE, Len(blob)))
           /\ blob[1] = 1 =>
                  /\ parsed.version = V1_MARKER
                  /\ parsed.iv = SubSeq(blob, 2, Min(1 + IV_SIZE, Len(blob)))
    /\ (pc \in {"ctr", "returned"}) => blob[1] \in {0, 1}

\* What the code does: the leading byte 0 selects the 32-byte IV field and
\* every other leading byte, 1 or not, the 16-byte one; the byte is under no
\* signature, so a version 1 envelope whose marker was changed to a byte
\* other than 0 is read as before.
LeadingByteSelectsIvField ==
    /\ (pc \in {"verify", "ctr", "returned"}) =>
           /\ parsed.version = <<blob[1]>>
           /\ parsed.iv = SubSeq(blob, 2, Min(1 + (IF blob[1] = 0 THEN V0_IV_SIZE
                                                   ELSE IV_SIZE), Len(blob)))
           /\ parsed.iv \o parsed.data = Drop(blob, 1)
    /\ (pc \in {"returned", "raised"} /\ origin.kind = "v1" /\ ~Intact
            /\ origin.flip[1] = 1 /\ origin.flip[2] # 0) =>
           result = [status |-> "ok", value |-> origin.plain]

\* C19: statelessness under concurrency.  aes_encrypt and aes_decrypt keep
\* everything in their arguments and local variables, so in every
\* interleaving of concurrent calls the outcome of a call is the function of
\* its own arguments (and, for aes_encrypt, of its own IV draw): no call
\* running before or during another changes what it returns.
C19_Stateless ==
    \A t \in Threads :
        /\ (calls[t].pc \in {"verify", "ctr"}) =>
               LET p == SplitEnvelope(calls[t].data)
               IN  /\ calls[t].version = p.version
                   /\ calls[t].iv = p.iv
                   /\ calls[t].rest = p.data
        /\ (calls[t].pc = "done" /\ calls[t].op = "aes_decrypt") =>
               calls[t].result = aes_decrypt(calls[t].key, calls[t].data)
        /\ (calls[t].pc = "done" /\ calls[t].op = "aes_encrypt") =>
               calls[t].result =
                   [status |-> "ok",
                    value  |-> aes_encrypt(calls[t].key, calls[t].data, calls[t].iv)]

C19_Witness ==
    /\ calls[1].pc = "done"
    /\ calls[1].op = "aes_decrypt"
    /\ calls[1].result = [status |-> "ok", value |-> ThreadPlain]
    /\ calls[2].pc = "ctr"
    /\ calls[2].op = "aes_decrypt"
    /\ calls[2].data # calls[1].data
    /\ calls[2].key # calls[1].key

\* C20: DocumentBase timestamps.  Over any sequence of save() and update()
\* calls with the default update_date and no date field set by the caller,
\* date_created is set by the first save and keeps that value, and
\* date_updated is set to the current time by every call, so it is later
\* than before whenever time has advanced since the previous call.
C20_Timestamps ==
    ~log.explicit =>
        /\ db.exists => (log.first_save # 0 /\ db.date_created = log.first_save)
        /\ doc.pk => doc.date_created = log.first_save
        /\ ~db.exists => (db.date_created = NoDate /\ db.date_updated = NoDate)
        /\ (log.op \in {"save", "update"} /\ log.status = "ok") =>
               /\ db.date_updated = log.at
               /\ log.before.exists =>
                      /\ db.date_created = log.before.date_created
                      /\ db.date_updated >= log.before.date_updated
                      /\ (log.at > log.prev_at)
                             => db.date_updated > log.before.date_updated
               /\ ~log.before.exists =>
                      (log.op = "save" /\ db.date_created = log.at)
        /\ (log.op = "save" /\ log.status = "ok") =>
               (doc.pk /\ doc.date_updated >= log.at)
        /\ log.status \in {"none", "ok", "OperationError"}
        /\ log.status = "OperationError" => (log.op = "update" /\ ~db.exists)

C20_Witness ==
    /\ ~log.explicit
    /\ log.op = "update"
    /\ log.status = "ok"
    /\ log.first_save < log.prev_at
    /\ log.prev_at < log.at
    /\ db.date_created = log.first_save
    /\ db.date_updated = log.at
    /\ log.before.date_updated = log.prev_at
    /\ db.text # log.before.text

\* C21: DocumentBase timestamp overrides.  update() or modify() with
\* update_date=False leaves date_updated as it was while the other changes
\* are applied; a call that passes set__date_updated stores the caller's
\* value instead of the current time; date_created changes only when the
\* caller sets it.
C21_TimestampOverrides ==
    /\ (log.op \in {"update", "modify"} /\ log.status = "ok") =>
           /\ db.date_updated =
                  IF "set__date_updated" \in DOMAIN log.kwargs
                  THEN log.kwargs["set__date_updated"]
                  ELSE IF log.update_date THEN log.at
                  ELSE log.before.date_updated
           /\ db.date_created =
                  IF "set__date_created" \in DOMAIN log.kwargs
                  THEN log.kwargs["set__date_created"]
                  ELSE log.before.date_created
           /\ db.text =
                  IF "set__text" \in DOMAIN log.kwargs
                  THEN log.kwargs["set__text"]
                  ELSE log.before.text
    /\ (log.op \in {"update", "modify"} /\ log.status # "ok") => db = log.before
    /\ (log.op = "save" /\ log.status = "ok" /\ log.before.exists) =>
           db.date_created = log.before.date_created

C21_Witness ==
    /\ log.op = "modify"
    /\ log.status = "ok"
    /\ ~log.update_date
    /\ DOMAIN log.kwargs = {"set__text"}
    /\ db.text = log.kwargs["set__text"]
    /\ db.text # log.before.text
    /\ db.date_updated = log.before.date_updated
    /\ db.date_updated < log.at
    /\ doc.date_updated = db.date_updated

\* The limit is below max_allowed_limit; no limit is below None.
Below(limit, max_allowed_limit) ==
    max_allowed_limit.t = "int" /\ limit.v < max_allowed_limit.v

\* C22: forbidden-query limit rule.  For a queryset that is not marked
\* safe, not empty and not in testing mode, a query whose shape equals a
\* forbidden query_shape and whose ordering is covered is allowed only when
\* its effective limit is below max_allowed_limit (default 0); with no
\* limit, or a limit not below max_allowed_limit, ForbiddenQueryException
\* is raised.
C22_LimitRule ==
    (/\ qlast.op \in {"next", "getitem"}
     /\ ~qlast.marked /\ ~qs.none /\ ~is_testing
     /\ forbidden_queries.t = "list") =>
        LET limit == EffectiveLimit(qs.limit, qlast.idx_key)
            matching == {i \in DOMAIN forbidden_queries.v :
                            /\ qlast.shape = forbidden_queries.v[i].query_shape
                            /\ OrderingCovered(forbidden_queries.v[i], qs.ordering)}
            allowed(i) == /\ limit.t = "int"
                          /\ Below(limit, MaxAllowedLimit(forbidden_queries.v[i]))
        IN  qlast.status = IF \E i \in matching : ~allowed(i)
                           THEN "ForbiddenQueryException" ELSE "ok"

\* What the code does: a matching query is let through when its effective
\* limit is not above max_allowed_limit.
LimitNotAboveAllowed ==
    (/\ qlast.op \in {"next", "getitem"}
     /\ ~qlast.marked /\ ~qs.none /\ ~is_testing
     /\ forbidden_queries.t = "list") =>
        LET limit == EffectiveLimit(qs.limit, qlast.idx_key)
            matching == {i \in DOMAIN forbidden_queries.v :
                            /\ qlast.shape = forbidden_queries.v[i].query_shape
                            /\ OrderingCovered(forbidden_queries.v[i], qs.ordering)}
            allowed(i) ==
                LET max_allowed_limit == MaxAllowedLimit(forbidden_queries.v[i])
                IN  /\ limit.t = "int"
                    /\ max_allowed_limit.t = "int"
                    /\ limit.v <= max_allowed_limit.v
        IN  qlast.status = IF \E i \in matching : ~allowed(i)
                           THEN "ForbiddenQueryException" ELSE "ok"

\* Some entry of forbidden_queries has the shape and the ordering of the
\* queryset, which has no limit of its own.
MatchesForbidden ==
    /\ forbidden_queries.t = "list"
    /\ qs.limit.t = "none"
    /\ \E i \in DOMAIN forbidden_queries.v :
           /\ _get_query_shape(qs.query) = forbidden_queries.v[i].query_shape
           /\ OrderingCovered(forbidden_queries.v[i], qs.ordering)

\* C23: mark_as_safe.  Once mark_as_safe() has been called on a queryset,
\* no later next() or indexing on it raises ForbiddenQueryException,
\* whatever its shape, ordering and limit; a queryset never marked safe is
\* checked on every next() and every indexing.
C23_MarkAsSafe ==
    /\ qlast.marked => qs.marked_as_safe
    /\ (qlast.op \in {"next", "getitem"} /\ qlast.marked) => qlast.status = "ok"
    /\ (/\ qlast.op \in {"next", "getitem"}
        /\ ~qlast.marked /\ ~qs.none /\ ~is_testing
        /\ MatchesForbidden
        /\ qlast.idx_key.v.t = "none") => qlast.status = "ForbiddenQueryException"

C23_Witness ==
    /\ qlast.op = "getitem"
    /\ qlast.marked
    /\ qlast.status = "ok"
    /\ qlast.idx_key.t = "slice"
    /\ qlast.idx_key.v.t = "none"
    /\ ~qs.none
    /\ ~is_testing
    /\ MatchesForbidden
    /\ qs.query # EmptyDict

\* shape is what the claim says the shape of a query is.
RECURSIVE IsShapeOf(_, _)
IsShapeOf(shape, query) ==
    /\ shape.t = "dict"
    /\ DOMAIN shape.v = DOMAIN query.v
    /\ \A key \in DOMAIN query.v :
           IF query.v[key].t = "dict" THEN IsShapeOf(shape.v[key], query.v[key])
           ELSE IF query.v[key].t \in {"list", "tuple"}
                THEN shape.v[key] = PyList(<<>>)
           ELSE shape.v[key] = PyScalar(1)

\* C24: query shape.  _get_query_shape keeps every key of the query and
\* replaces each scalar by 1, each list or tuple by an empty list and each
\* nested dict by its own shape; an empty query is returned unchanged, and
\* the shape of a shape is that shape.
C24_QueryShape ==
    qlast.op = "_get_query_shape" =>
        /\ IsShapeOf(qlast.shape, qs.query)
        /\ qs.query = EmptyDict => qlast.shape = qs.query
        /\ _get_query_shape(qlast.shape) = qlast.shape

C24_Witness ==
    /\ qlast.op = "_get_query_shape"
    /\ DOMAIN qs.query.v = {"a", "b"}
    /\ qs.query.v["a"] = PyDict([k \in {"$gt"} |->
                             PyDict([j \in {"$gt"} |-> PyTuple(<<5>>)])])
    /\ qs.query.v["b"] = PyScalar(5)
    /\ qlast.shape.v["a"] = PyDict([k \in {"$gt"} |->
                                PyDict([j \in {"$gt"} |-> PyList(<<>>)])])
    /\ qlast.shape.v["b"] = PyScalar(1)

\* The width of the IV field of the parse the leading byte selects.
IvWidth == IF Take(blob, 1) = V0_MARKER THEN V0_IV_SIZE ELSE IV_SIZE

\* C25: tag position.  For both parses aes_decrypt_iv takes the trailing 32
\* bytes of the envelope as the tag and every byte between the IV field and
\* the tag as the cipher, so the plaintext returned has length
\* len(envelope) - 1 - ivWidth - 32, and decryption returns that whole
\* plaintext or raises, with no partial result.
C25_TagPosition ==
    /\ pc = "returned" =>
           LET cipher == SubSeq(blob, 2 + IvWidth, Len(blob) - HMAC_DIGEST_SIZE)
               iv == SubSeq(blob, 2, 1 + IvWidth)
           IN  /\ Len(blob) >= 1 + IvWidth + HMAC_DIGEST_SIZE
               /\ result.status = "ok"
               /\ Len(result.value) = Len(blob) - 1 - IvWidth - HMAC_DIGEST_SIZE
               /\ HmacDigest(MacHalfOf(CallKey), iv \o cipher)
                      = TakeLast(blob, HMAC_DIGEST_SIZE)
               /\ result.value
                      = AesCtr(AesHalfOf(CallKey), TakeLast(iv, IV_SIZE), cipher)
    /\ pc = "raised" => (result.status # "ok" /\ result.value = <<>>)
    /\ pc \notin {"returned", "raised"} => result = NoResult

C25_Witness ==
    /\ pc = "returned"
    /\ origin.kind = "v0"
    /\ IvWidth = V0_IV_SIZE
    /\ Len(result.value) = MaxLen
    /\ Len(blob) = 1 + V0_IV_SIZE + MaxLen + HMAC_DIGEST_SIZE
    /\ result.value = origin.plain

\* C26: only authentication failure moves to the next key.  In _decrypt an
\* attempt that fails with AuthenticationError is followed by the next key,
\* while an attempt that fails with any other error (invalid key size, an
\* index error on empty input) ends the call at once with that error,
\* leaving the remaining keys untried.
C26_OnlyAuthFailureContinues ==
    /\ \A i \in DOMAIN attempts :
           /\ attempts[i].key = i
           /\ attempts[i].status = "AuthenticationError" => idx > i
           /\ i < Len(attempts) => attempts[i].status = "AuthenticationError"
    /\ (pc \in {"verify", "ctr", "returned"}) =>
           /\ \A i \in 1..idx : Len(key_list[i]) = KEY_LENGTH
           /\ blob # <<>>
    /\ (pc = "raised" /\ result.status # "AuthenticationError") =>
           /\ idx <= Len(key_list)
           /\ Len(attempts) = idx - 1
           /\ hmac_runs <= idx
           /\ ctr_runs = 0
           /\ result.status = "AssertionError" =>
                  (Len(key_list[idx]) # KEY_LENGTH /\ hmac_runs = idx - 1)
           /\ result.status = "IndexError" =>
                  (blob = <<>> /\ idx = 1 /\ hmac_runs = 0)
           /\ result.status \in {"AssertionError", "IndexError", "ValueError"}
    /\ (pc = "raised" /\ result.status = "AuthenticationError") =>
           (idx = Len(key_list) + 1 /\ Len(attempts) = Len(key_list))

C26_Witness ==
    /\ pc = "raised"
    /\ result.status = "AssertionError"
    /\ idx = 1
    /\ Len(key_list) = 2
    /\ origin.kind = "v1"
    /\ key_list[2] = origin.key
    /\ hmac_runs = 0
    /\ attempts = <<>>

\* C27: RandomPKDocument id on failure.  Whenever the underlying save
\* raises OperationError, the id of the document is restored to the value it
\* had when save() was entered (None for a new document) before the error is
\* re-raised or the save is retried, so a failed save leaves no generated id.
C27_IdRestored ==
    /\ rcall.pc = "try" => (rdoc.id = rcall.entry_id /\ rcall.old_id = rcall.entry_id)
    /\ (rcall.pc = "done" /\ rcall.status = "OperationError") =>
           rdoc.id = rcall.entry_id
    /\ (rcall.pc # "idle" /\ rcall.entry_id = NoId /\ rdoc.id # NoId) =>
           (rcall.pc = "done" /\ rcall.status \in {"ok", "ValidationError"})

\* C27 as stated for every failed save: once save() has ended with an
\* error, a document that had no id when save() was entered has none.
C27_FailedSaveLeavesNoId ==
    (rcall.pc = "done" /\ rcall.status # "ok" /\ rcall.entry_id = NoId) =>
        rdoc.id = NoId

C27_Witness ==
    /\ rcall.pc = "done"
    /\ rcall.status = "OperationError"
    /\ rcall.entry_id = NoId
    /\ rdoc.id = NoId
    /\ Len(rcall.tries) = 2
    /\ rcall.tries[1].outcome = "dup_id"
    /\ rcall.tries[2].outcome = "dup_other"
    /\ rcall.tries[2].id \in RandomIds

\* C28: RandomPKDocument id assignment and retry.  save() on a document
\* without id assigns a fresh '<prefix>_<random>' id and forces an insert;
\* when that insert fails with the duplicate _id error of its own
\* collection save() is retried with a newly drawn id and ends once an
\* insert succeeds; any other OperationError is re-raised without retry.
\* save() on a document that has an id never changes the id and never
\* forces an insert.
C28_AssignAndRetry ==
    LET tries == rcall.tries
    IN  /\ rcall.entry_id = NoId =>
               /\ \A i \in DOMAIN tries :
                      /\ tries[i].id \in RandomIds
                      /\ tries[i].force_insert
                      /\ i < Len(tries) => tries[i].outcome = "dup_id"
                      /\ tries[i].outcome = "dup_id" =>
                             /\ tries[i].id \in coll
                             /\ i < Len(tries) \/ rcall.pc = "try"
               /\ rcall.pc = "try" => rcall.depth = Len(tries) + 1
               /\ rcall.pc = "done" =>
                      /\ tries # <<>>
                      /\ rcall.status =
                             IF tries[Len(tries)].outcome = "ok" THEN "ok"
                             ELSE IF tries[Len(tries)].outcome = "ValidationError"
                             THEN "ValidationError"
                             ELSE "OperationError"
                      /\ rcall.status = "ok" =>
                             /\ rdoc.id = tries[Len(tries)].id
                             /\ rdoc.id \in coll
        /\ rcall.entry_id # NoId =>
               /\ rdoc.id = rcall.entry_id
               /\ \A i \in DOMAIN tries :
                      /\ tries[i].id = rcall.entry_id
                      /\ tries[i].force_insert = rcall.caller_force

C28_Witness ==
    /\ rcall.pc = "done"
    /\ rcall.status = "ok"
    /\ rcall.entry_id = NoId
    /\ Len(rcall.tries) = 2
    /\ rcall.tries[1].outcome = "dup_id"
    /\ rcall.tries[2].id # rcall.tries[1].id
    /\ rdoc.id = rcall.tries[2].id
    /\ rcall.tries[1].id \in coll
    /\ rcall.tries[2].force_insert

\* C29: soft delete.  delete() on a saved SoftDeleteDocument sets
\* is_deleted to True and keeps the stored document, so afterwards it is
\* excluded from every default objects query and from objects.count() but
\* is still returned by all_objects; delete() on a document that was never
\* saved changes nothing.
C29_SoftDelete ==
    slog.op = "delete" =>
        IF slog.memory.pk
        THEN /\ sdb.exists
             /\ sdb.is_deleted = "True"
             /\ sdoc.is_deleted = "True"
             /\ sq.op \in {"objects_call", "objects_bare"} => ~sq.found
             /\ sq.op = "objects_count" => sq.count = 0
             /\ sq.op \in {"all_objects", "all_objects_next"} => sq.found
        ELSE sdb = slog.before /\ sdoc = slog.memory

\* What the code does: the deleted document is hidden from the querysets
\* on which __call__ or count has run, and from no other; next() on
\* all_objects returns it when the cursor of the kept queryset has not been
\* read before.
HiddenWhereFiltered ==
    slog.op = "delete" =>
        IF slog.memory.pk
        THEN /\ sdb.exists
             /\ sdb.is_deleted = "True"
             /\ sdoc.is_deleted = "True"
             /\ sq.op = "objects_call" => ~sq.found
             /\ sq.op = "objects_count" => sq.count = 0
             /\ sq.op \in {"all_objects", "objects_bare"} => sq.found
             /\ sq.op = "all_objects_next" =>
                    (sq.found <=> sq.cursor \in {"absent", "new"})
        ELSE sdb = slog.before /\ sdoc = slog.memory

\* C30: is_deleted is never None.  modify() and update() called with
\* set__is_deleted=None raise ValidationError before anything is written,
\* so after any sequence of modify, update and delete calls the stored
\* is_deleted of a document is True or False.
C30_NeverNone ==
    /\ sdb.exists => sdb.is_deleted \in {"True", "False"}
    /\ ~sdb.exists => sdb = NoSdb
    /\ (slog.op \in {"modify", "update"} /\ slog.arg = "None") =>
           /\ slog.status = "ValidationError"
           /\ sdb = slog.before
           /\ sdoc = slog.memory
    /\ (slog.op \in {"modify", "update"} /\ slog.status = "ok"
            /\ slog.arg # "absent") => sdb.is_deleted = slog.arg

\* What the code does: set__is_deleted = None is refused and nothing is
\* written; a call that takes the stored is_deleted from True or False to
\* something else is a modify or update with a keyword argument other than
\* set__is_deleted.
GuardCoversSetOnly ==
    /\ (slog.op \in {"modify", "update"} /\ slog.arg = "None") =>
           /\ slog.status = "ValidationError"
           /\ sdb = slog.before
           /\ sdoc = slog.memory
    /\ (slog.before.is_deleted \in {"True", "False"}
            /\ sdb.is_deleted \notin {"True", "False"}) =>
           /\ slog.op \in {"modify", "update"}
           /\ slog.status = "ok"
           /\ DOMAIN slog.kwargs \in {{"unset__is_deleted"}, {"__raw__"}}

C30_Witness ==
    /\ slog.op = "modify"
    /\ slog.arg = "None"
    /\ slog.status = "ValidationError"
    /\ sdoc.pk
    /\ sdb.exists
    /\ sdb.is_deleted = "True"
    /\ sdb = slog.before

=============================================================================
